---- MODULE Spec2Model ----
(***************************************************************************)
(* XLink-Service: the federated credential-exchange chain                  *)
(* (routes/auth.routes.js), its upstream clients (services/*.js), the      *)
(* token normaliser of the debug routes, the batch gamertag resolver and   *)
(* the wishlist version cache (routes/wishlist.routes.js).                 *)
(*                                                                         *)
(* JavaScript `undefined`/`null` is the string "none".  A text is a        *)
(* sequence of one-character strings.  An upstream failure is a record     *)
(* [status, err]: status 0 is a failure without an HTTP response           *)
(* (err.response is undefined: timeout, connection reset).                 *)
(***************************************************************************)
EXTENDS Integers, Sequences, FiniteSets, TLC

VARIABLES
    \* ---- POST /auth/callback (routes/auth.routes.js:77-131)
    pc,         \* position of the handler: the await it is suspended at
    calls,      \* upstream HTTP requests issued so far, in order
    inflight,   \* upstream requests issued and not yet answered
    loc,        \* the handler's local constants
    thrown,     \* which service call threw, and on which upstream outcome
    jwtSigned,  \* number of signJwt calls
    res,        \* what the handler sent: nothing yet, an error or the bundle
    \* ---- token normaliser of the debug routes (normalizeToken)
    codecIn,    \* the uhs and raw token a composite header token is built from
    codecOut,   \* normalizeToken's result for it, once computed
    \* ---- wishlist routes (routes/wishlist.routes.js) and their upstream
    versionCache, \* the module-level Map: Minecraft token -> version stamps
    reqs,         \* the requests being handled, each suspended at an await
    server,       \* the Marketplace's current version stamps per account
    rejected,     \* per token: the stamps of a mutation rejected as stale
    answered,     \* the response this step sent to a wishlist request, if any
    lastSet,      \* the setCachedVersions call of this step: which arguments it supplied
    \* ---- getGamertagsBatch (services/xbox.service.js:233-318), one call
    allXuids,   \* the filtered, stringified input list
    out,        \* the result object under construction: key -> gamertag / null
    bulk,       \* the bulk loop: chunk offset i, the chunks before it, its userIds, the attempt awaited
    queue,      \* the shared queue of the worker pool
    workers,    \* each worker: the identifier it looks up and the attempt awaited
    lookups,    \* single-item requests issued so far: <<xuid, contract version>>
    pending,    \* number of single-item requests sent and not yet answered
    gaveUp,     \* the identifier given up in this step (both attempts failed), and its entry before
    returned,   \* whether the call has returned `out`
    \* ---- getProfileSettings behind cached() (xbox.service.js:42-72, utils/cache.js)
    cache,      \* the LRU cache: key -> value and expiry, or no entry
    clock,      \* the time the cache's ttl is measured against
    getters,    \* the getProfileSettings calls in progress
    \* ---- decodeOne of the debug routes (two revisions)
    decodeIn,   \* the token text handed to decodeOne
    decodeOut,  \* what the call produced: its result, or that it raised
    \* ---- /auth/callback and /auth/refresh side by side (auth.routes.js:77-131, 168-222)
    handlers,   \* per handler: position, calls issued, request awaited, locals, response
    upstream,   \* the requests answered so far, each with its answer
    \* ---- buildMarketplaceMessageEventsPayload (services/minecraft.service.js), one call
    msgIn,      \* the options it is called with
    msgOut,     \* what it returned or threw
    \* ---- getPeopleSocial, getPeopleFollowers, getXuidByGamertag (xbox.service.js:337-439)
    vcall       \* the call in progress: versions requested, statuses answered, outcome

chainVars == <<pc, calls, inflight, loc, thrown, jwtSigned, res>>

None == "none"

----------------------------------------------------------------------------
(* utils/httpError.js *)

HttpError(status, message) == [status |-> status, message |-> message]
badRequest(msg) == HttpError(400, msg)
unauthorized(msg) == HttpError(401, msg)
forbidden(msg) == HttpError(403, msg)
internal(msg) == HttpError(500, msg)

----------------------------------------------------------------------------
(* What an upstream can answer.                                            *)

\* statuses axios rejects on (validateStatus: 2xx only); 0 = no response
FailStatus == {0, 400, 401, 403, 404, 500}

\* `error` field of the Microsoft token endpoint's error payload
MsErrorCodes == {"authorization_pending", "expired_token", None}

\* a failure of the device-code exchange: without a response there is no payload
MsFailures == {f \in [status : FailStatus, err : MsErrorCodes] :
                 f.status = 0 => f.err = None}

Failures == [status : FailStatus, err : {None}]

XblTokens == {"xbl", None}
XstsTokens == {"tokA", "tokB"}
\* DisplayClaims.xui[0] of an XSTS response, or none when the array is missing
Xui == [xid : {"xuid1"}, uhs : {"uhs1"}, gtg : {"gt1"}]
NoXui == [xid |-> None, uhs |-> None, gtg |-> None]
XstsData == [Token : XstsTokens, xui : Xui \cup {NoXui}]
NoXsts == [Token |-> None, xui |-> NoXui]
\* data.data of LoginWithXbox; present = FALSE when the body has no data
LoginData == [present : BOOLEAN, SessionTicket : {"ticket", None}, PlayFabId : {"pf1", None}]
\* data.result.authorizationHeader of session/start
McHeaders == {"MCToken mc1", None}
\* data.data of GetEntityToken
EntityData == [present : BOOLEAN, EntityToken : {"ent1"}, TokenExpiration : {"exp1"}]
NoEntity == [present |-> FALSE, EntityToken |-> None, TokenExpiration |-> None]

----------------------------------------------------------------------------
(* The upstream clients' catch blocks: upstream failure -> HttpError.      *)

\* the pending answer is reported like every other failure of the exchange
getTokenFromDeviceCodeCatch_NoPending(f) ==
    internal("Failed to exchange device_code")

getTokenFromDeviceCodeCatch(f) ==
    IF f.err = "authorization_pending"
    THEN badRequest("Authorization pending")
    ELSE internal("Failed to exchange device_code")

getXBLTokenCatch(f) == internal("Failed to get XBL token")

getXSTSTokenCatch(f) == internal("Failed to get XSTS token")

loginWithXboxCatch(f) ==
    IF f.status = 401 THEN unauthorized("Failed to login with Xbox (PlayFab)")
    ELSE IF f.status = 403 THEN forbidden("Failed to login with Xbox (PlayFab)")
    ELSE IF f.status # 0 /\ f.status >= 400 /\ f.status < 500
         THEN badRequest("Failed to login with Xbox (PlayFab)")
    ELSE internal("Failed to login with Xbox (PlayFab)")

getEntityTokenCatch(f) ==
    IF f.status = 401 THEN unauthorized("Failed to get PlayFab EntityToken")
    ELSE IF f.status = 403 THEN forbidden("Failed to get PlayFab EntityToken")
    ELSE IF f.status # 0 /\ f.status >= 400 /\ f.status < 500
         THEN badRequest("Failed to get PlayFab EntityToken")
    ELSE internal("Failed to get PlayFab EntityToken")

getMCTokenCatch(f) ==
    IF f.status = 401 THEN unauthorized("Failed to get Minecraft token")
    ELSE IF f.status = 403 THEN forbidden("Failed to get Minecraft token")
    ELSE IF f.status # 0 /\ f.status >= 400 /\ f.status < 500
         THEN unauthorized("Failed to get Minecraft token")
    ELSE internal("Failed to get Minecraft token")

\* an error thrown inside getMCToken's own try block (no err.response)
NoResponse == [status |-> 0, err |-> None]

----------------------------------------------------------------------------
(* POST /auth/callback                                                     *)

RP_XBOX == "http://xboxlive.com"
RP_REDEEM == "https://b980a380.minecraft.playfabapi.com/"
RP_PLAYFAB == "rp://playfabapi.com/"

\* `XBL3.0 x=${uhs};${token}`: the template prints undefined as "undefined"
Shown(v) == IF v = None THEN "undefined" ELSE v
CompositeXbl(uhs, token) == <<"XBL3.0 x=", Shown(uhs), ";", Shown(token)>>

signJwt(xid, gtg) == <<"jwt", xid, gtg>>

NoBundle == [sent |-> FALSE]

InitLoc ==
    [msAccessToken |-> None, xblToken |-> None,
     xboxTokenInfo |-> NoXsts, redeemTokenInfo |-> NoXsts, playfabTokenInfo |-> NoXsts,
     playfabToken |-> <<>>, SessionTicket |-> None, PlayFabId |-> None,
     mcToken |-> None, entityData |-> NoEntity, masterEntityData |-> NoEntity]

NoThrow == [call |-> None, status |-> 0, err |-> None, upstream |-> FALSE]

NoRes == [kind |-> "none", status |-> 0, message |-> None, bundle |-> NoBundle]

\* an upstream request: the client function and what distinguishes its target
Call(fn, arg) == [fn |-> fn, arg |-> arg]

\* the request leaves the process: http.post(...) up to its await
Issue(call, at) ==
    /\ calls' = Append(calls, call)
    /\ inflight' = {call}
    /\ pc' = at

\* the handler answers with what it has collected instead of the error
Throw_PartialBundle(call, f, e) ==
    /\ pc' = "failed"
    /\ inflight' = {}
    /\ thrown' = [call |-> call, status |-> f.status, err |-> f.err, upstream |-> TRUE]
    /\ res' = [kind |-> "bundle", status |-> 200, message |-> None, bundle |-> [sent |-> TRUE]]
    /\ UNCHANGED <<calls, loc, jwtSigned>>

\* a service call threw on upstream failure f: asyncHandler hands the error
\* to errorHandler, which sends err.status and err.message
Throw(call, f, e) ==
    /\ pc' = "failed"
    /\ inflight' = {}
    /\ thrown' = [call |-> call, status |-> f.status, err |-> f.err, upstream |-> TRUE]
    /\ res' = [kind |-> "error", status |-> e.status, message |-> e.message, bundle |-> NoBundle]
    /\ UNCHANGED <<calls, loc, jwtSigned>>

\* an error raised without any upstream failure (argument check, TypeError)
Raise(call, e, signed) ==
    /\ pc' = "failed"
    /\ inflight' = {}
    /\ thrown' = [call |-> call, status |-> 0, err |-> None, upstream |-> FALSE]
    /\ res' = [kind |-> "error", status |-> e.status, message |-> e.message, bundle |-> NoBundle]
    /\ jwtSigned' = jwtSigned + signed
    /\ UNCHANGED <<calls, loc>>

\* lines 78-83: the body is valid (Joi: a non-empty string), the exchange is posted
Callback ==
    /\ pc = "idle"
    /\ Issue(Call("getTokenFromDeviceCode", None), "await_device")
    /\ UNCHANGED <<loc, thrown, jwtSigned, res>>

\* lines 83-89
DeviceOk ==
    /\ pc = "await_device"
    /\ loc' = [loc EXCEPT !.msAccessToken = "msat"]
    /\ Issue(Call("getXBLToken", None), "await_xbl")
    /\ UNCHANGED <<thrown, jwtSigned, res>>

DeviceFail ==
    /\ pc = "await_device"
    /\ \E f \in MsFailures : Throw("getTokenFromDeviceCode", f, getTokenFromDeviceCodeCatch(f))

\* lines 89-91; getXSTSToken rejects a missing xblToken before any request
XblOk ==
    /\ pc = "await_xbl"
    /\ \E t \in XblTokens :
         IF t = None
         THEN Raise("getXSTSToken", badRequest("Missing xblToken"), 0)
         ELSE /\ loc' = [loc EXCEPT !.xblToken = t]
              /\ Issue(Call("getXSTSToken", RP_XBOX), "await_xsts_xbox")
              /\ UNCHANGED <<thrown, jwtSigned, res>>

XblFail ==
    /\ pc = "await_xbl"
    /\ \E f \in Failures : Throw("getXBLToken", f, getXBLTokenCatch(f))

\* lines 91-92
XstsXboxOk ==
    /\ pc = "await_xsts_xbox"
    /\ \E d \in XstsData :
         /\ loc' = [loc EXCEPT !.xboxTokenInfo = d]
         /\ Issue(Call("getXSTSToken", RP_REDEEM), "await_xsts_redeem")
    /\ UNCHANGED <<thrown, jwtSigned, res>>

\* lines 92-93
XstsRedeemOk ==
    /\ pc = "await_xsts_redeem"
    /\ \E d \in XstsData :
         /\ loc' = [loc EXCEPT !.redeemTokenInfo = d]
         /\ Issue(Call("getXSTSToken", RP_PLAYFAB), "await_xsts_playfab")
    /\ UNCHANGED <<thrown, jwtSigned, res>>

XstsFail ==
    /\ pc \in {"await_xsts_xbox", "await_xsts_redeem", "await_xsts_playfab"}
    /\ \E f \in Failures : Throw("getXSTSToken", f, getXSTSTokenCatch(f))

\* lines 93-102: claims of the Xbox-audience token, the composite tokens, PlayFab login
XstsPlayfabOk ==
    /\ pc = "await_xsts_playfab"
    /\ \E d \in XstsData :
         /\ loc' = [loc EXCEPT !.playfabTokenInfo = d,
                               !.playfabToken = CompositeXbl(loc.xboxTokenInfo.xui.uhs, d.Token)]
         /\ Issue(Call("loginWithXbox", None), "await_login")
    /\ UNCHANGED <<thrown, jwtSigned, res>>

\* lines 102-103; destructuring an absent data.data is a TypeError; getMCToken
\* throws on a missing ticket inside its own try, so its catch block maps it
LoginOk ==
    /\ pc = "await_login"
    /\ \E d \in LoginData :
         IF ~d.present
         THEN Raise("loginWithXbox", internal("TypeError"), 0)
         ELSE IF d.SessionTicket = None
         THEN Raise("getMCToken", getMCTokenCatch(NoResponse), 0)
         ELSE /\ loc' = [loc EXCEPT !.SessionTicket = d.SessionTicket, !.PlayFabId = d.PlayFabId]
              /\ Issue(Call("getMCToken", None), "await_mc")
              /\ UNCHANGED <<thrown, jwtSigned, res>>

LoginFail ==
    /\ pc = "await_login"
    /\ \E f \in Failures : Throw("loginWithXbox", f, loginWithXboxCatch(f))

\* lines 103-104; a 2xx answer without authorizationHeader is thrown and re-mapped
McOk ==
    /\ pc = "await_mc"
    /\ \E h \in McHeaders :
         IF h = None
         THEN Raise("getMCToken", getMCTokenCatch(NoResponse), 0)
         ELSE /\ loc' = [loc EXCEPT !.mcToken = h]
              /\ Issue(Call("getEntityToken", None), "await_entity")
              /\ UNCHANGED <<thrown, jwtSigned, res>>

McFail ==
    /\ pc = "await_mc"
    /\ \E f \in Failures : Throw("getMCToken", f, getMCTokenCatch(f))

\* lines 108-130: sign the API token, then assemble and send the bundle;
\* reading entityData.EntityToken of an absent data.data is a TypeError raised
\* after signJwt has run
Finish(entityData, masterEntityData) ==
    LET xui == loc.xboxTokenInfo.xui IN
    IF ~entityData.present
    THEN Raise("buildAuthCallbackResponse", internal("TypeError"), 1)
    ELSE /\ pc' = "done"
         /\ inflight' = {}
         /\ jwtSigned' = jwtSigned + 1
         /\ loc' = [loc EXCEPT !.entityData = entityData, !.masterEntityData = masterEntityData]
         /\ res' = [kind |-> "bundle", status |-> 200, message |-> None,
                    bundle |-> [sent |-> TRUE,
                       jwt |-> signJwt(xui.xid, xui.gtg),
                       xuid |-> xui.xid, gamertag |-> xui.gtg, uhs |-> xui.uhs,
                       msAccessToken |-> loc.msAccessToken,
                       xblToken |-> loc.xblToken,
                       xboxliveToken |-> CompositeXbl(xui.uhs, loc.xboxTokenInfo.Token),
                       playfabToken |-> loc.playfabToken,
                       redeemToken |-> CompositeXbl(xui.uhs, loc.redeemTokenInfo.Token),
                       mcToken |-> loc.mcToken,
                       sessionTicket |-> loc.SessionTicket,
                       playFabId |-> loc.PlayFabId,
                       entityToken |-> entityData.EntityToken,
                       entityTokenMaster |-> masterEntityData.EntityToken]]
         /\ UNCHANGED <<calls, thrown>>

\* lines 104-107: the master entity token is requested only with a PlayFabId
EntityOk ==
    /\ pc = "await_entity"
    /\ \E d \in EntityData :
         IF loc.PlayFabId # None
         THEN /\ loc' = [loc EXCEPT !.entityData = d]
              /\ Issue(Call("getEntityToken", "master_player_account"), "await_master")
              /\ UNCHANGED <<thrown, jwtSigned, res>>
         ELSE Finish(d, NoEntity)

MasterOk ==
    /\ pc = "await_master"
    /\ \E d \in EntityData : Finish(loc.entityData, d)

EntityFail ==
    /\ pc \in {"await_entity", "await_master"}
    /\ \E f \in Failures : Throw("getEntityToken", f, getEntityTokenCatch(f))


----------------------------------------------------------------------------
(* normalizeToken (debug routes): texts are sequences of characters        *)

\* \s of a JavaScript regular expression, and what String.prototype.trim strips
IsSpace(c) == c \in {" ", "\t", "\n"}
\* what `.` does not match
IsLineTerminator(c) == c = "\n"

\* the /i flag: letters compare by their lower-case form
Lower(c) ==
    CASE c = "B" -> "b" [] c = "E" -> "e" [] c = "A" -> "a" [] c = "R" -> "r"
      [] c = "X" -> "x" [] c = "L" -> "l" [] c = "M" -> "m" [] c = "C" -> "c"
      [] c = "T" -> "t" [] c = "O" -> "o" [] c = "K" -> "k" [] c = "N" -> "n"
      [] OTHER -> c

Drop(s, n) == SubSeq(s, n + 1, Len(s))

RECURSIVE TrimStart(_)
TrimStart(s) == IF s # <<>> /\ IsSpace(Head(s)) THEN TrimStart(Tail(s)) ELSE s

RECURSIVE TrimEnd(_)
TrimEnd(s) ==
    IF s # <<>> /\ IsSpace(s[Len(s)]) THEN TrimEnd(SubSeq(s, 1, Len(s) - 1)) ELSE s

\* String.prototype.trim
Trim(s) == TrimEnd(TrimStart(s))

\* ^word, case-insensitively
StartsWithCI(s, word) ==
    /\ Len(s) >= Len(word)
    /\ \A i \in 1..Len(word) : Lower(s[i]) = Lower(word[i])

\* /^word\s+/i.test(s)
TestWordSpaces(s, word) ==
    /\ StartsWithCI(s, word)
    /\ Len(s) > Len(word)
    /\ IsSpace(s[Len(word) + 1])

\* s.replace(/^word\s+/i, "") where the pattern matches
StripWordSpaces(s, word) == TrimStart(Drop(s, Len(word)))

BEARER == <<"B", "e", "a", "r", "e", "r">>
XBL30 == <<"X", "B", "L", "3", ".", "0">>
MCTOKEN == <<"M", "C", "T", "o", "k", "e", "n">>

\* index of the first ";" of s, 0 if there is none
RECURSIVE IndexOfSemi(_, _)
IndexOfSemi(s, i) ==
    IF i > Len(s) THEN 0
    ELSE IF s[i] = ";" THEN i
    ELSE IndexOfSemi(s, i + 1)

\* t.match(/^XBL3\.0\s+x=([^;]+);(.+)$/i) for a t that passes /^XBL3\.0\s/i:
\* [ok, uhs (group 1), rest (group 2)]
MatchXblGrammar(t) ==
    LET a == StripWordSpaces(t, XBL30)
        body == Drop(a, 2)
        semi == IndexOfSemi(body, 1)
        rest == Drop(body, semi)
    IN IF /\ Len(a) >= 2 /\ Lower(a[1]) = "x" /\ a[2] = "="
          /\ semi > 1
          /\ rest # <<>>
          /\ \A i \in 1..Len(rest) : ~IsLineTerminator(rest[i])
       THEN [ok |-> TRUE, uhs |-> SubSeq(body, 1, semi - 1), rest |-> rest]
       ELSE [ok |-> FALSE, uhs |-> <<>>, rest |-> <<>>]

\* the three prefix stages of normalizeToken; NoText is a null uhs
NoText == <<"null">>

AfterBearer(t) ==
    IF TestWordSpaces(t, BEARER)
    THEN [raw |-> Trim(StripWordSpaces(t, BEARER)), prefix |-> "Bearer", uhs |-> NoText]
    ELSE [raw |-> t, prefix |-> None, uhs |-> NoText]

\* the x=<uhs>;<token> grammar is never tried: only the scheme word is stripped
AfterXbl_NoGrammar(r) ==
    IF TestWordSpaces(r.raw, XBL30)
    THEN [raw |-> Trim(StripWordSpaces(r.raw, XBL30)), prefix |-> "XBL3.0", uhs |-> r.uhs]
    ELSE r

AfterXbl(r) ==
    IF TestWordSpaces(r.raw, XBL30)
    THEN LET m == MatchXblGrammar(r.raw)
         IN IF m.ok
            THEN [raw |-> Trim(m.rest), prefix |-> "XBL3.0", uhs |-> m.uhs]
            ELSE [raw |-> Trim(StripWordSpaces(r.raw, XBL30)), prefix |-> "XBL3.0", uhs |-> r.uhs]
    ELSE r

AfterMcToken(r) ==
    IF TestWordSpaces(r.raw, MCTOKEN)
    THEN [raw |-> Trim(StripWordSpaces(r.raw, MCTOKEN)), prefix |-> "MCToken", uhs |-> r.uhs]
    ELSE r

normalizeToken(tok) == AfterMcToken(AfterXbl(AfterBearer(Trim(tok))))

\* "XBL3.0 x=" + uhs + ";" + token, as the login chain builds it
BuildComposite(uhs, token) == XBL30 \o <<" ", "x", "=">> \o uhs \o <<";">> \o token

\* the texts the model builds uhs and token values from
Pieces == {<<>>, <<"a">>, <<"b", ".", "c">>, <<" ">>, <<"\n">>, <<";">>, MCTOKEN, <<"m", "c", "t", "o", "k", "e", "n">>}

MaxTokenPieces == 3
MaxUhsPieces == 1

RECURSIVE Texts(_)
Texts(n) == IF n = 0 THEN {<<>>} ELSE {p \o t : p \in Pieces, t \in Texts(n - 1)}

NoOut == [done |-> FALSE, raw |-> <<>>, prefix |-> None, uhs |-> NoText]

NoIn == [uhs |-> <<>>, token |-> <<>>]

\* normalizeToken is given the composite token the login chain builds from uhs
\* and token
NormalizeComposite(uhs, token) ==
    /\ ~codecOut.done
    /\ codecIn' = [uhs |-> uhs, token |-> token]
    /\ LET r == normalizeToken(BuildComposite(uhs, token))
       IN codecOut' = [done |-> TRUE, raw |-> r.raw, prefix |-> r.prefix, uhs |-> r.uhs]

codecVars == <<codecIn, codecOut>>

----------------------------------------------------------------------------
(* Wishlist routes: the version cache, POST /wishlist/list, POST           *)
(* /wishlist/item, and the Marketplace they talk to.                       *)

McTokens == {"mcA"}
MaxReqs == 2
MaxVersion == 2
Slots == 1..MaxReqs

\* a version stamp is an opaque marker; <<>> is an absent (falsy) one
Stamp(n) == <<n>>
NoStamp == <<>>
\* the inventory changes at most once while the requests run
InventoryVersions == {1, 2}

\* a || b
OrElse(a, b) == IF a # NoStamp THEN a ELSE b

Pair(l, i) == [listVersion |-> l, inventoryVersion |-> i]
NoPair == Pair(NoStamp, NoStamp)
NoEntry == [present |-> FALSE, listVersion |-> NoStamp, inventoryVersion |-> NoStamp]

\* getCachedVersions: null without an entry, else the entry's two fields
getCachedVersions(mcToken) ==
    IF ~versionCache[mcToken].present THEN NoPair
    ELSE Pair(versionCache[mcToken].listVersion, versionCache[mcToken].inventoryVersion)

\* the new entry replaces the old one: an absent argument erases the field
setCachedVersions_Overwrite(mcToken, listVersion, inventoryVersion) ==
    /\ versionCache' = [versionCache EXCEPT ![mcToken] =
           [present |-> TRUE, listVersion |-> listVersion, inventoryVersion |-> inventoryVersion]]
    /\ lastSet' = [called |-> TRUE, token |-> mcToken,
                   listVersion |-> listVersion # NoStamp,
                   inventoryVersion |-> inventoryVersion # NoStamp]

\* setCachedVersions: each field is the argument, or else the cached value
setCachedVersions(mcToken, listVersion, inventoryVersion) ==
    LET current == versionCache[mcToken] IN
    /\ versionCache' = [versionCache EXCEPT ![mcToken] =
           [present |-> TRUE,
            listVersion |-> OrElse(listVersion, current.listVersion),
            inventoryVersion |-> OrElse(inventoryVersion, current.inventoryVersion)]]
    /\ lastSet' = [called |-> TRUE, token |-> mcToken,
                   listVersion |-> listVersion # NoStamp,
                   inventoryVersion |-> inventoryVersion # NoStamp]

NoSet == [called |-> FALSE, token |-> None, listVersion |-> FALSE, inventoryVersion |-> FALSE]

\* this step calls setCachedVersions not at all
NoCacheWrite == versionCache' = versionCache /\ lastSet' = NoSet

\* the failures the Marketplace answers a wishlist request with
MarketFailStatus == {0, 401, 403, 404, 500}

\* getMCWishlistPage / updateMCWishlist: upstream failure -> HttpError
getMCWishlistPageCatch(status) ==
    IF status = 401 THEN unauthorized("Failed to get MC wishlist")
    ELSE IF status = 403 THEN forbidden("Failed to get MC wishlist")
    ELSE IF status # 0 /\ status >= 400 /\ status < 500
         THEN unauthorized("Failed to get MC wishlist")
    ELSE internal("Failed to get MC wishlist")

updateMCWishlistCatch(status) ==
    IF status = 401 THEN unauthorized("Failed to update MC wishlist")
    ELSE IF status = 403 THEN forbidden("Failed to update MC wishlist")
    ELSE IF status # 0 /\ status >= 400 /\ status < 500
         THEN unauthorized("Failed to update MC wishlist")
    ELSE internal("Failed to update MC wishlist")

\* what the Marketplace puts in a PagedList_Wishlist answer: each stamp in a
\* response header, in the body or (after a contract change) nowhere
Places == {"header", "body", "nowhere"}

PageAnswers(mcToken) ==
    {[hdrInventory |-> IF pi = "header" THEN server[mcToken].inventoryVersion ELSE NoStamp,
      hdrList |-> IF pl = "header" THEN server[mcToken].listVersion ELSE NoStamp,
      bodyInventory |-> IF pi = "body" THEN server[mcToken].inventoryVersion ELSE NoStamp,
      bodyList |-> IF pl = "body" THEN server[mcToken].listVersion ELSE NoStamp]
       : pi \in Places, pl \in Places}

\* getMCWishlistPage's meta: the response header wins over the body field
PageMeta(a) ==
    [inventoryVersion |-> OrElse(a.hdrInventory, a.bodyInventory),
     userListsVersion |-> OrElse(a.hdrList, a.bodyList)]

\* a request slot: what one request being handled holds while it is suspended
IdleReq ==
    [route |-> None, token |-> None, pc |-> "idle", versions |-> NoPair,
     cachedAtStart |-> FALSE, readAheads |-> 0, readAheadAnswered |-> FALSE,
     updates |-> 0, lacked |-> FALSE, resent |-> FALSE]

\* the response a step sends, with the counters of the request it answers
NoAnswer ==
    [route |-> None, token |-> None, status |-> 0, cause |-> None,
     cachedAtStart |-> FALSE, readAheads |-> 0, readAheadAnswered |-> FALSE, updates |-> 0]

Answer(q, status, cause) ==
    [route |-> q.route, token |-> q.token, status |-> status, cause |-> cause,
     cachedAtStart |-> q.cachedAtStart, readAheads |-> q.readAheads,
     readAheadAnswered |-> q.readAheadAnswered, updates |-> q.updates]

\* a step that answers no request
NoResponseSent == answered' = NoAnswer

\* the request ends with error e (errorHandler sends e.status)
Fail(r, q, e, cause) ==
    /\ reqs' = [reqs EXCEPT ![r] = IdleReq]
    /\ answered' = Answer(q, e.status, cause)

\* the request ends with its answer sent
Succeed(r, q) ==
    /\ reqs' = [reqs EXCEPT ![r] = IdleReq]
    /\ answered' = Answer(q, 200, None)

\* POST /wishlist/list up to its await (the cached stamps travel in the
\* payload as a hint; the answer carries the Marketplace's own stamps)
ListStart(r, mcToken) ==
    /\ reqs[r].pc = "idle"
    /\ reqs' = [reqs EXCEPT ![r] = [IdleReq EXCEPT !.route = "list", !.token = mcToken,
                                    !.pc = "listing"]]
    /\ NoCacheWrite
    /\ NoResponseSent
    /\ UNCHANGED <<server, rejected>>

\* the page arrived: the cache takes the stamps of the answer
ListOk(r) ==
    /\ reqs[r].pc = "listing"
    /\ \E a \in PageAnswers(reqs[r].token) :
         setCachedVersions(reqs[r].token, PageMeta(a).userListsVersion, PageMeta(a).inventoryVersion)
    /\ Succeed(r, reqs[r])
    /\ UNCHANGED <<server, rejected>>

ListFail(r) ==
    /\ reqs[r].pc = "listing"
    /\ \E st \in MarketFailStatus : Fail(r, reqs[r], getMCWishlistPageCatch(st), "upstream")
    /\ NoCacheWrite
    /\ UNCHANGED <<server, rejected>>

\* resolveVersions reads ahead even when both stamps are cached
resolveVersionsCached_Never(cached) == FALSE

\* resolveVersions, line 39: both stamps are cached
resolveVersionsCached(cached) ==
    cached.listVersion # NoStamp /\ cached.inventoryVersion # NoStamp

\* POST /wishlist/item up to its first await: resolveVersions either returns
\* the cached stamps, and updateMCWishlist is posted, or posts the read-ahead
ItemStart(r, mcToken) ==
    /\ reqs[r].pc = "idle"
    /\ LET cached == getCachedVersions(mcToken)
           base == [IdleReq EXCEPT !.route = "item", !.token = mcToken,
                                   !.cachedAtStart = (cached.listVersion # NoStamp
                                                      /\ cached.inventoryVersion # NoStamp)]
       IN reqs' = [reqs EXCEPT ![r] =
                     IF resolveVersionsCached(cached)
                     THEN [base EXCEPT !.pc = "update", !.versions = cached, !.updates = 1,
                                       !.resent = (cached = rejected[mcToken])]
                     ELSE [base EXCEPT !.pc = "readahead", !.readAheads = 1]]
    /\ rejected' = [rejected EXCEPT ![mcToken] = NoPair]
    /\ NoCacheWrite
    /\ NoResponseSent
    /\ UNCHANGED server

\* a read-ahead answer without both stamps is accepted and cached as it is
ReadAheadOk_Tolerant(r) ==
    /\ reqs[r].pc = "readahead"
    /\ \E a \in PageAnswers(reqs[r].token) :
         LET listVersion == PageMeta(a).userListsVersion
             inventoryVersion == PageMeta(a).inventoryVersion
         IN /\ setCachedVersions(reqs[r].token, listVersion, inventoryVersion)
            /\ reqs' = [reqs EXCEPT ![r].pc = "update", ![r].readAheadAnswered = TRUE,
                                    ![r].lacked = (listVersion = NoStamp \/ inventoryVersion = NoStamp),
                                    ![r].versions = Pair(listVersion, inventoryVersion),
                                    ![r].updates = 1]
    /\ NoResponseSent
    /\ UNCHANGED <<server, rejected>>

\* the read-ahead arrived (resolveVersions lines 46-53): without both stamps the
\* request fails; with them they are cached and updateMCWishlist is posted
ReadAheadOk(r) ==
    /\ reqs[r].pc = "readahead"
    /\ \E a \in PageAnswers(reqs[r].token) :
         LET listVersion == PageMeta(a).userListsVersion
             inventoryVersion == PageMeta(a).inventoryVersion
         IN IF listVersion = NoStamp \/ inventoryVersion = NoStamp
            THEN /\ Fail(r, [reqs[r] EXCEPT !.readAheadAnswered = TRUE],
                         badRequest("Failed to resolve listVersion/inventoryVersion"), "stamps")
                 /\ NoCacheWrite
            ELSE /\ setCachedVersions(reqs[r].token, listVersion, inventoryVersion)
                 /\ reqs' = [reqs EXCEPT ![r].pc = "update", ![r].readAheadAnswered = TRUE,
                                         ![r].versions = Pair(listVersion, inventoryVersion),
                                         ![r].updates = 1]
                 /\ NoResponseSent
    /\ UNCHANGED <<server, rejected>>

ReadAheadFail(r) ==
    /\ reqs[r].pc = "readahead"
    /\ \E st \in MarketFailStatus :
         Fail(r, [reqs[r] EXCEPT !.readAheadAnswered = TRUE], getMCWishlistPageCatch(st), "upstream")
    /\ NoCacheWrite
    /\ UNCHANGED <<server, rejected>>

\* the stamps a mutation carries are the Marketplace's current ones
Current(mcToken, versions) == versions = server[mcToken]

\* the Marketplace applied the mutation: the list has a new version, which the
\* answer's headers may or may not carry
UpdateOk(r) ==
    LET t == reqs[r].token
        next == Stamp(server[t].listVersion[1] + 1)
    IN /\ reqs[r].pc = "update"
       /\ Current(t, reqs[r].versions)
       /\ server[t].listVersion[1] < MaxVersion
       /\ server' = [server EXCEPT ![t].listVersion = next]
       /\ \E l \in {NoStamp, next}, i \in {NoStamp, server[t].inventoryVersion} :
            setCachedVersions(t, l, i)
       /\ Succeed(r, reqs[r])
       /\ UNCHANGED rejected

\* the Marketplace refused the mutation because its stamps are not current
UpdateStale(r) ==
    /\ reqs[r].pc = "update"
    /\ ~Current(reqs[r].token, reqs[r].versions)
    /\ Fail(r, reqs[r], updateMCWishlistCatch(409), "stale")
    /\ rejected' = [rejected EXCEPT ![reqs[r].token] = reqs[r].versions]
    /\ NoCacheWrite
    /\ UNCHANGED server

\* any other failure of the mutation
UpdateFail(r) ==
    /\ reqs[r].pc = "update"
    /\ \E st \in MarketFailStatus : Fail(r, reqs[r], updateMCWishlistCatch(st), "upstream")
    /\ NoCacheWrite
    /\ UNCHANGED <<server, rejected>>

\* another client of the same account (the game) changes the wishlist or the
\* inventory: the Marketplace's stamps move on
ExternalChange(mcToken) ==
    /\ \/ /\ server[mcToken].listVersion[1] < MaxVersion
          /\ server' = [server EXCEPT ![mcToken].listVersion = Stamp(server[mcToken].listVersion[1] + 1)]
       \/ /\ server[mcToken].inventoryVersion[1] + 1 \in InventoryVersions
          /\ server' = [server EXCEPT ![mcToken].inventoryVersion = Stamp(server[mcToken].inventoryVersion[1] + 1)]
    /\ NoCacheWrite
    /\ NoResponseSent
    /\ UNCHANGED <<reqs, rejected>>

wishlistVars == <<versionCache, reqs, server, rejected, answered, lastSet>>

----------------------------------------------------------------------------
(* getGamertagsBatch: bulk chunks first, then the worker pool              *)

Ids == {"1", "2"}
\* an id the caller did not ask for
ForeignId == "9"
UpIds == Ids \cup {ForeignId}

MaxIds == 3
\* the chunk size (100 in the program) and the pool size (8), scaled to the lists
\* the model handles
MAX_BATCH == 2
CONCURRENCY == 2

\* a key of `out` holds a gamertag, null, or is not a property of the object
Absent == "absent"
Null == "null"

\* Object.keys(out)
Keys(o) == {k \in DOMAIN o : o[k] # <<Absent>>}

\* the users of a bulk answer, as mergeUsers reads them: for each id at most
\* one user; its Gamertag setting's value or null (?? null)
BulkAnswers == [UpIds -> {<<Absent>>, <<Null>>, <<"gt">>}]

\* mergeUsers: every user with an id is written into out, whoever was asked for
mergeUsers(o, data) ==
    [k \in UpIds |-> IF data[k] # <<Absent>> THEN data[k] ELSE o[k]]

\* data.profileUsers[0] of a single-item answer: no user, or a user with or
\* without id and Gamertag value
NoUser == [id |-> Absent, gt |-> <<Absent>>]
SingleAnswers == {NoUser} \cup [id : UpIds \cup {Absent}, gt : {<<Null>>, <<"gt">>}]
PoolAnswers == {NoUser, [id |-> "1", gt |-> <<"gt">>]}

\* `if (u?.id) out[u.id] = gt`
StoreUser(o, u) == IF u.id # Absent THEN [o EXCEPT ![u.id] = u.gt] ELSE o

\* `out[x] = null`
StoreNull_Overwrite(o, x) == [o EXCEPT ![x] = <<Null>>]

\* `out[x] ??= null`
StoreNull(o, x) == IF o[x] = <<Absent>> THEN [o EXCEPT ![x] = <<Null>>] ELSE o

RECURSIVE SeqsUpTo(_)
SeqsUpTo(n) == IF n = 0 THEN {<<>>} ELSE SeqsUpTo(n - 1) \cup [1..n -> Ids]

Range(q) == {q[i] : i \in 1..Len(q)}

\* a slice that takes the item at the end index as well
Slice_Inclusive(xs, i) ==
    SubSeq(xs, i + 1, IF i + MAX_BATCH + 1 < Len(xs) THEN i + MAX_BATCH + 1 ELSE Len(xs))

\* allXuids.slice(i, i + MAX_BATCH)
Slice(xs, i) ==
    SubSeq(xs, i + 1, IF i + MAX_BATCH < Len(xs) THEN i + MAX_BATCH ELSE Len(xs))

NoBulk == [i |-> 0, before |-> <<>>, body |-> <<>>, stage |-> "none"]
IdleWorker == [pc |-> "idle", x |-> None]
NoGiveUp == [x |-> None, had |-> <<Absent>>]

\* a worker's loop from `while (queue.length)` to its next await: it shifts
\* the next identifier and sends the first single-item request (version 2)
RECURSIVE RunWorkers(_, _, _, _)
RunWorkers(ws, q, lk, todo) ==
    IF todo = <<>> THEN [workers |-> ws, queue |-> q, lookups |-> lk]
    ELSE LET w == Head(todo) IN
         IF q = <<>>
         THEN RunWorkers([ws EXCEPT ![w] = [pc |-> "done", x |-> None]], q, lk, Tail(todo))
         ELSE RunWorkers([ws EXCEPT ![w] = [pc |-> "v2", x |-> Head(q)]], Tail(q),
                         Append(lk, <<Head(q), 2>>), Tail(todo))

WorkerOrder == [w \in 1..CONCURRENCY |-> w]

\* a pool of twice the size: every worker is started a second time
StartWorkers_TwicePool(o) ==
    LET st == RunWorkers(workers, allXuids, lookups, WorkerOrder \o WorkerOrder) IN
    /\ out' = o
    /\ bulk' = NoBulk
    /\ workers' = st.workers
    /\ queue' = st.queue
    /\ lookups' = st.lookups
    /\ pending' = pending + Len(st.lookups) - Len(lookups)
    /\ UNCHANGED <<allXuids, returned>>

\* lines 290-316: the queue is a copy of the whole input; every worker runs
\* up to its first await before Promise.all is awaited
StartWorkers(o) ==
    LET st == RunWorkers(workers, allXuids, lookups, WorkerOrder) IN
    /\ out' = o
    /\ bulk' = NoBulk
    /\ workers' = st.workers
    /\ queue' = st.queue
    /\ lookups' = st.lookups
    /\ pending' = pending + Len(st.lookups) - Len(lookups)
    /\ UNCHANGED <<allXuids, returned>>

\* lines 234-235: falsy items are dropped before this point; an empty list is
\* answered {} at once, otherwise the first chunk is posted with version 3
GetGamertagsBatch(xuids) ==
    /\ ~returned /\ allXuids = <<>> /\ bulk = NoBulk
    /\ \A w \in 1..CONCURRENCY : workers[w].pc = "idle"
    /\ allXuids' = xuids
    /\ IF xuids = <<>>
       THEN returned' = TRUE /\ UNCHANGED bulk
       ELSE /\ bulk' = [i |-> 0, before |-> <<>>, body |-> Slice(xuids, 0), stage |-> "v3"]
            /\ UNCHANGED returned
    /\ gaveUp' = NoGiveUp
    /\ UNCHANGED <<out, queue, workers, lookups, pending>>

\* the chunks are done when the offset passes the end of the list
LastChunk == bulk.i + MAX_BATCH >= Len(allXuids)

\* line 286 answers with `out` when it has as many keys as the input has items
BulkComplete(o) == Cardinality(Keys(o)) = Len(allXuids)

\* a chunk's data arrived (lines 283-286): merge, then the next chunk, the
\* early return, or the worker pool
BulkData(stage) ==
    /\ ~returned /\ bulk.stage = stage
    /\ gaveUp' = NoGiveUp
    /\ \E data \in BulkAnswers :
         LET o == mergeUsers(out, data) IN
         IF ~LastChunk
         THEN /\ out' = o
              /\ bulk' = [i |-> bulk.i + MAX_BATCH,
                           before |-> bulk.before \o bulk.body,
                           body |-> Slice(allXuids, bulk.i + MAX_BATCH), stage |-> "v3"]
              /\ UNCHANGED <<allXuids, queue, workers, lookups, returned, pending>>
         ELSE IF BulkComplete(o)
         THEN /\ out' = o
              /\ bulk' = NoBulk
              /\ returned' = TRUE
              /\ UNCHANGED <<allXuids, queue, workers, lookups, pending>>
         ELSE StartWorkers(o)

BulkV3Ok == BulkData("v3")
BulkV2Ok == BulkData("v2")
BulkQueryOk == BulkData("q")

\* lines 268-280: 400, 401 and 403 lead to the version-2 request, any other
\* failure leaves the bulk loop through the outer catch
BulkV3Fail ==
    /\ ~returned /\ bulk.stage = "v3"
    /\ gaveUp' = NoGiveUp
    /\ \E s \in FailStatus :
         IF s \in {400, 401, 403}
         THEN /\ bulk' = [bulk EXCEPT !.stage = "v2"]
              /\ UNCHANGED <<allXuids, out, queue, workers, lookups, returned, pending>>
         ELSE StartWorkers(out)

\* lines 274-276: after any failure of version 2, the query-parameter variant
BulkV2Fail ==
    /\ ~returned /\ bulk.stage = "v2"
    /\ gaveUp' = NoGiveUp
    /\ bulk' = [bulk EXCEPT !.stage = "q"]
    /\ UNCHANGED <<allXuids, out, queue, workers, lookups, returned, pending>>

\* its failure is not caught in the loop: outer catch, then the worker pool
BulkQueryFail ==
    /\ ~returned /\ bulk.stage = "q"
    /\ gaveUp' = NoGiveUp
    /\ StartWorkers(out)

\* a loop that reads queue[0] and leaves it in the queue
WorkerLoop_NoShift(w, o, ws) ==
    LET st == RunWorkers(ws, queue, lookups, <<w>>) IN
    /\ out' = o
    /\ workers' = st.workers
    /\ queue' = queue
    /\ lookups' = st.lookups
    /\ pending' = pending - 1 + Len(st.lookups) - Len(lookups)
    /\ UNCHANGED <<allXuids, bulk, returned>>

\* the worker goes round its loop after an identifier is dealt with
WorkerLoop(w, o, ws) ==
    LET st == RunWorkers(ws, queue, lookups, <<w>>) IN
    /\ out' = o
    /\ workers' = st.workers
    /\ queue' = st.queue
    /\ lookups' = st.lookups
    /\ pending' = pending - 1 + Len(st.lookups) - Len(lookups)
    /\ UNCHANGED <<allXuids, bulk, returned>>

\* lines 298-301 and 305-308: a 2xx answer; the user, if it has an id, is stored
WorkerOk(w, u) ==
    /\ workers[w].pc \in {"v2", "v3"}
    /\ WorkerLoop(w, StoreUser(out, u), workers)
    /\ gaveUp' = NoGiveUp

\* line 302: the first attempt failed, the second is sent with version 3
WorkerV2Fail(w) ==
    /\ workers[w].pc = "v2"
    /\ workers' = [workers EXCEPT ![w].pc = "v3"]
    /\ lookups' = Append(lookups, <<workers[w].x, 3>>)
    /\ pending' = pending - 1 + 1
    /\ gaveUp' = NoGiveUp
    /\ UNCHANGED <<allXuids, out, bulk, queue, returned>>

\* lines 309-311: both attempts failed
WorkerV3Fail(w) ==
    /\ workers[w].pc = "v3"
    /\ WorkerLoop(w, StoreNull(out, workers[w].x), workers)
    /\ gaveUp' = [x |-> workers[w].x, had |-> out[workers[w].x]]

\* lines 316-317: every worker has left its loop
BatchReturn ==
    /\ ~returned
    /\ \A w \in 1..CONCURRENCY : workers[w].pc = "done"
    /\ returned' = TRUE
    /\ gaveUp' = NoGiveUp
    /\ UNCHANGED <<allXuids, out, bulk, queue, workers, lookups, pending>>

batchVars == <<allXuids, out, bulk, queue, workers, lookups, pending, gaveUp, returned>>

----------------------------------------------------------------------------
(* getProfileSettings and the cache it goes through                        *)

Xuids == {"x1", "x2"}
Getters == 1..2
MaxClock == 3
\* the ttl of a profile entry (30000 ms), in clock ticks
ProfileTtl == 2

Ok == 200
\* what the profile endpoint answers a request of one contract version with
ProfileFailStatus == {0, 401, 403, 404}
ProfileAnswers == {Ok} \cup ProfileFailStatus

\* the Authorization header of a call: a token the upstream accepts, or one it
\* rejects with 401 whatever is asked for
ProfileTokens == {"valid", "expired"}
AnswersTo(token) == IF token = "valid" THEN ProfileAnswers ELSE {401}

\* the response body of a 2xx answer
ProfileData(xuid, v) == <<"profile", xuid, v>>

NoCached == [present |-> FALSE, value |-> <<>>, expires |-> 0]

\* a cache whose get() also returns entries past their ttl
CacheHit_IgnoresTtl(k) == cache[k].present

\* cache.get(k): an entry past its ttl is not returned
CacheHit(k) == cache[k].present /\ clock < cache[k].expires

\* cache.set(k, val, {ttl})
CacheSet(k, val) ==
    [cache EXCEPT ![k] = [present |-> TRUE, value |-> val, expires |-> clock + ProfileTtl]]

IdleGetter ==
    [pc |-> "idle", xuid |-> None, token |-> None, attempts |-> <<>>, answers |-> <<>>,
     result |-> <<>>, status |-> 0]

\* cached(): a hit answers at once; a miss runs the fetcher, whose first
\* request carries contract version 3
GetProfileSettings(g, xuid, token) ==
    /\ getters[g].pc = "idle"
    /\ getters' = [getters EXCEPT ![g] =
         IF CacheHit(xuid)
         THEN [pc |-> "done", xuid |-> xuid, token |-> token, attempts |-> <<>>,
               answers |-> <<>>, result |-> cache[xuid].value, status |-> Ok]
         ELSE [pc |-> "v3", xuid |-> xuid, token |-> token, attempts |-> <<3>>,
               answers |-> <<>>, result |-> <<>>, status |-> 0]]
    /\ UNCHANGED <<cache, clock>>

\* a fill that leaves an entry another call has written meanwhile
Fetched_KeepFirst(g, v) ==
    LET val == ProfileData(getters[g].xuid, v) IN
    /\ cache' = IF CacheHit(getters[g].xuid) THEN cache ELSE CacheSet(getters[g].xuid, val)
    /\ getters' = [getters EXCEPT ![g].pc = "done", ![g].result = val, ![g].status = Ok,
                                  ![g].answers = Append(@, Ok)]

\* the fetcher's value is stored and returned
Fetched(g, v) ==
    LET val == ProfileData(getters[g].xuid, v) IN
    /\ cache' = CacheSet(getters[g].xuid, val)
    /\ getters' = [getters EXCEPT ![g].pc = "done", ![g].result = val, ![g].status = Ok,
                                  ![g].answers = Append(@, Ok)]

\* a cache that stores the failure under the key
ProfileFailed_CachesFailure(g, s) ==
    /\ getters' = [getters EXCEPT ![g].pc = "failed",
                                  ![g].status = internal("Failed to get profile settings").status,
                                  ![g].answers = Append(@, s)]
    /\ cache' = CacheSet(getters[g].xuid, <<"error", getters[g].xuid, s>>)

\* internal("Failed to get profile settings"): nothing is cached
ProfileFailed(g, s) ==
    /\ getters' = [getters EXCEPT ![g].pc = "failed",
                                  ![g].status = internal("Failed to get profile settings").status,
                                  ![g].answers = Append(@, s)]
    /\ UNCHANGED cache

\* lines 52-63: version 3 answered; on 401 or 403 the call fails at once, on
\* any other failure version 2 is requested
ProfileV3Answer(g) ==
    /\ getters[g].pc = "v3"
    /\ \E s \in AnswersTo(getters[g].token) :
         IF s = Ok THEN Fetched(g, 3)
         ELSE IF s \in {401, 403}
         THEN ProfileFailed(g, s)
         ELSE /\ getters' = [getters EXCEPT ![g].pc = "v2", ![g].attempts = <<3, 2>>,
                                            ![g].answers = Append(@, s)]
              /\ UNCHANGED cache
    /\ UNCHANGED clock

\* lines 62-69: version 2 answered
ProfileV2Answer(g) ==
    /\ getters[g].pc = "v2"
    /\ \E s \in AnswersTo(getters[g].token) :
         IF s = Ok THEN Fetched(g, 2) ELSE ProfileFailed(g, s)
    /\ UNCHANGED clock

\* the caller has its answer; the slot serves the next call
GetterFree(g) ==
    /\ getters[g].pc \in {"done", "failed"}
    /\ getters' = [getters EXCEPT ![g] = IdleGetter]
    /\ UNCHANGED <<cache, clock>>

Tick ==
    /\ clock < MaxClock
    /\ clock' = clock + 1
    /\ UNCHANGED <<cache, getters>>

profileVars == <<cache, clock, getters>>

----------------------------------------------------------------------------
(* decodeOne: the token decoder behind POST /debug/decode-token            *)
(* A text may hold runs: elements that stand for several characters the    *)
(* pattern matching never looks into (base64url segments, ticket bodies).  *)

\* base64url of {"typ":"JWT"}, {"alg":"none"}, {"exp":9}, 0 and "sig"
HDR_JWT == "eyJ0eXAiOiJKV1QifQ"
HDR_OBJ == "eyJhbGciOiJub25lIn0"
PAY_EXP == "eyJleHAiOjl9"
PAY_ZERO == "MA"
SEG_TEXT == "c2ln"
\* 40 characters of letters, digits and hyphens
TICKET40 == "8f14e45f-ceea-467a-9d3c-0a1b2c3d4e5f-xyz"

\* the number of characters an element of a text stands for
Width(c) ==
    CASE c = HDR_JWT -> 18 [] c = HDR_OBJ -> 19 [] c = PAY_EXP -> 12
      [] c = PAY_ZERO -> 2 [] c = SEG_TEXT -> 4 [] c = TICKET40 -> 40
      [] OTHER -> 1

\* String.prototype.length
RECURSIVE Length(_)
Length(t) == IF t = <<>> THEN 0 ELSE Width(Head(t)) + Length(Tail(t))

\* a JSON value, as far as decodeOne looks at it
\* exp is <<>> when the object has no numeric exp
NoJson == [t |-> "null", typ |-> None, exp |-> <<>>, n |-> 0, s |-> <<>>]
JsonObject(typ, exp) == [NoJson EXCEPT !.t = "object", !.typ = typ, !.exp = exp]
JsonNumber(n) == [NoJson EXCEPT !.t = "number", !.n = n]
JsonString(str) == [NoJson EXCEPT !.t = "string", !.s = str]
\* {length: n}
LengthObject(n) == [NoJson EXCEPT !.t = "object", !.n = n]

\* JavaScript truthiness of a value
Truthy(j) ==
    \/ j.t = "object"
    \/ j.t = "number" /\ j.n # 0
    \/ j.t = "string" /\ j.s # <<>>

\* tryParseJson(b64urlToString(part)): null unless the bytes are JSON
tryParseJson(part) ==
    IF part = <<HDR_JWT>> THEN JsonObject("JWT", <<>>)
    ELSE IF part = <<HDR_OBJ>> THEN JsonObject(None, <<>>)
    ELSE IF part = <<PAY_EXP>> THEN JsonObject(None, <<9>>)
    ELSE IF part = <<PAY_ZERO>> THEN JsonNumber(0)
    ELSE NoJson

\* index of the first "." of s from i on, 0 if there is none
RECURSIVE IndexOfDot(_, _)
IndexOfDot(s, i) ==
    IF i > Len(s) THEN 0
    ELSE IF s[i] = "." THEN i
    ELSE IndexOfDot(s, i + 1)

\* raw.split(".")
RECURSIVE Split(_)
Split(s) ==
    LET d == IndexOfDot(s, 1)
    IN IF d = 0 THEN <<s>> ELSE <<SubSeq(s, 1, d - 1)>> \o Split(Drop(s, d))

NoCompact == [kind |-> None, header |-> NoJson, payload |-> NoJson]

decodeCompact(raw) ==
    LET parts == Split(raw)
        h == tryParseJson(parts[1])
    IN IF Len(parts) = 3 /\ Truthy(h) /\ Truthy(tryParseJson(parts[2]))
       THEN [kind |-> "JWS", header |-> h, payload |-> tryParseJson(parts[2])]
       ELSE IF Len(parts) = 5 /\ Truthy(h)
       THEN [kind |-> "JWE", header |-> h, payload |-> NoJson]
       ELSE NoCompact

\* [a-zA-Z0-9\-_]: every run is one, of the single characters the letters and
\* digits the model uses
IsBase64Url(c) == c \notin {".", " ", "\n", "\t", ";", "="}

\* jsonwebtoken's decode(raw, {complete: true}), which is jws.decode: null
\* unless raw is three base64url segments (the third may be empty) whose
\* header parses; a header of typ "JWT" has its payload JSON.parse'd without
\* a try, every other payload is parsed if it can be and else kept as text
jwtDecode(raw) ==
    LET parts == Split(raw)
        valid == /\ Len(parts) = 3
                 /\ parts[1] # <<>> /\ parts[2] # <<>>
                 /\ \A i \in 1..3 : \A k \in 1..Len(parts[i]) : IsBase64Url(parts[i][k])
                 /\ Truthy(tryParseJson(parts[1]))
        p == tryParseJson(parts[2])
    IN IF ~valid THEN [threw |-> FALSE, dec |-> FALSE, header |-> NoJson, payload |-> NoJson]
       ELSE IF tryParseJson(parts[1]).typ = "JWT" /\ p = NoJson
       THEN [threw |-> TRUE, dec |-> FALSE, header |-> NoJson, payload |-> NoJson]
       ELSE [threw |-> FALSE, dec |-> TRUE, header |-> tryParseJson(parts[1]),
             payload |-> IF p.t = "object" \/ tryParseJson(parts[1]).typ = "JWT"
                         THEN p ELSE JsonString(parts[2])]

OPAQUE_MIN == 24
TICKET_MIN == 40

\* part_011, line 98: raw.trim().length >= 24
IsOpaque(raw) == Length(Trim(raw)) >= OPAQUE_MIN

\* routes/debug.routes.js, line 94: only letters, digits and + / = . -, more
\* than 40 characters, with a hyphen
IsTicket(raw) ==
    /\ raw # <<>>
    /\ \A i \in 1..Len(raw) : raw[i] \notin {" ", "\n", "\t", ";", "_"}
    /\ Length(raw) > TICKET_MIN
    /\ \E i \in 1..Len(raw) : raw[i] \in {"-", TICKET40}

NoDecoded ==
    [done |-> FALSE, rev |-> None, raised |-> FALSE, ok |-> FALSE, header |-> NoJson,
     payload |-> NoJson, kind |-> None, prefix |-> None, uhs |-> NoText,
     hasExp |-> FALSE, rawLength |-> 0]

\* `x || null` of a JSON value
OrNull(j) == IF Truthy(j) THEN j ELSE NoJson

\* the last rule of decodeOne, which differs between the two revisions: which
\* undecoded tokens are opaque
opaqueRule(rev, raw) == IF rev = "part_011" THEN IsOpaque(raw) ELSE IsTicket(raw)

\* and the typ such a token is given
opaqueTyp(rev) == IF rev = "part_011" THEN "OpaqueToken" ELSE "PlayFabSessionTicket"

\* decodeOne of either revision
decodeWith(input, rev) ==
    LET norm == normalizeToken(input)
        raw == norm.raw
        cp == decodeCompact(raw)
        dec == jwtDecode(raw)
        base == [NoDecoded EXCEPT !.done = TRUE, !.rev = rev, !.prefix = norm.prefix,
                                  !.uhs = norm.uhs, !.rawLength = Length(raw)]
        first ==
            IF cp.kind = "JWS"
            THEN [base EXCEPT !.ok = TRUE, !.kind = "JWS", !.header = cp.header,
                              !.payload = cp.payload]
            ELSE IF cp.kind = "JWE"
            THEN [base EXCEPT !.ok = TRUE, !.kind = "JWE", !.header = cp.header]
            ELSE IF dec.dec
            THEN [base EXCEPT !.ok = TRUE, !.kind = "JWS", !.header = OrNull(dec.header),
                              !.payload = OrNull(dec.payload)]
            ELSE base
        withExp == [first EXCEPT !.hasExp = (first.payload.t = "object" /\ first.payload.exp # <<>>)]
    IN IF cp.kind = None /\ dec.threw
       THEN [base EXCEPT !.raised = TRUE]
       ELSE IF ~withExp.ok /\ opaqueRule(rev, raw)
       THEN [withExp EXCEPT !.ok = TRUE, !.kind = "OPAQUE",
                            !.header = JsonObject(opaqueTyp(rev), <<>>),
                            !.payload = LengthObject(Length(raw))]
       ELSE withExp

\* unnamed/part_011, lines 65-109
decodeOne(input) == decodeWith(input, "part_011")

\* routes/debug.routes.js, lines 61-113
decodeOneTicket(input) == decodeWith(input, "debug.routes")

\* the segments tokens are put together from, and the schemes before them
Segments == {<<HDR_JWT>>, <<HDR_OBJ>>, <<PAY_EXP>>, <<PAY_ZERO>>, <<SEG_TEXT>>, <<TICKET40>>, <<>>}
Schemes == {<<>>, XBL30 \o <<" ", "x", "=", "u", ";">>}

MaxSegments == 5

\* parts.join(".")
RECURSIVE Join(_)
Join(parts) ==
    IF Len(parts) = 1 THEN parts[1] ELSE parts[1] \o <<".">> \o Join(Tail(parts))

RECURSIVE Tokens(_)
Tokens(n) ==
    IF n = 0 THEN {} ELSE Tokens(n - 1) \cup {Join(parts) : parts \in [1..n -> Segments]}

DecodeInputs == {sch \o tok : sch \in Schemes, tok \in Tokens(MaxSegments)}

\* POST /debug/decode-token hands the token to decodeOne
DecodeOne(input) ==
    /\ ~decodeOut.done
    /\ decodeIn' = input
    /\ decodeOut' = decodeOne(input)

DecodeOneTicket(input) ==
    /\ ~decodeOut.done
    /\ decodeIn' = input
    /\ decodeOut' = decodeOneTicket(input)

decodeVars == <<decodeIn, decodeOut>>

----------------------------------------------------------------------------
(* POST /auth/callback and POST /auth/refresh, one request of each, with   *)
(* the arguments of every upstream call.  The upstream answers a request   *)
(* it has seen before, same function and same arguments, the same way.     *)

Handlers == {"callback", "refresh"}

\* req.body: device_code for /callback, msRefreshToken for /refresh
Body(h) == IF h = "callback" THEN "dc0" ELSE "rt0"

\* step 1 of each handler
EntryCall(h) == IF h = "callback" THEN "getTokenFromDeviceCode" ELSE "refreshMsToken"

\* /refresh logs in to another PlayFab title than /callback
titleId_PerHandler(h) == IF h = "callback" THEN "20ca2" ELSE "0ther"

\* const titleId = env.PLAYFAB_TITLE_ID || "20ca2"
titleId(h) == "20ca2"

\* an argument is a text; a plain string is the text of one piece
Text(s) == <<s>>

Request(fn, args) == [fn |-> fn, args |-> args]

\* tokenData of the Microsoft token endpoint
MsTokenData == [access_token : {"at1", "at2"}, refresh_token : {"rt1", None}]
NoMs == [access_token |-> None, refresh_token |-> None]
NoLogin == [present |-> FALSE, SessionTicket |-> None, PlayFabId |-> None]

\* an upstream answer: a failure, or the part of a 2xx body the client returns
OkReply ==
    [ok |-> TRUE, fail |-> NoResponse, ms |-> NoMs, token |-> None,
     xsts |-> NoXsts, login |-> NoLogin, entity |-> NoEntity]

\* the failures the two handlers are run against
HandlerFailStatus == {0, 400, 401}

FailReplies(F) ==
    {[OkReply EXCEPT !.ok = FALSE, !.fail = f] : f \in {g \in F : g.status \in HandlerFailStatus}}

Replies(fn) ==
    CASE fn = "getTokenFromDeviceCode" ->
            {[OkReply EXCEPT !.ms = d] : d \in MsTokenData} \cup FailReplies(MsFailures)
      [] fn = "refreshMsToken" ->
            {[OkReply EXCEPT !.ms = d] : d \in MsTokenData} \cup FailReplies(Failures)
      [] fn = "getXBLToken" ->
            {[OkReply EXCEPT !.token = t] : t \in XblTokens} \cup FailReplies(Failures)
      [] fn = "getXSTSToken" ->
            {[OkReply EXCEPT !.xsts = d] : d \in XstsData} \cup FailReplies(Failures)
      [] fn = "loginWithXbox" ->
            {[OkReply EXCEPT !.login = d] : d \in LoginData} \cup FailReplies(Failures)
      [] fn = "getMCToken" ->
            {[OkReply EXCEPT !.token = t] : t \in McHeaders} \cup FailReplies(Failures)
      [] fn = "getEntityToken" ->
            {[OkReply EXCEPT !.entity = d] : d \in EntityData} \cup FailReplies(Failures)

\* the handler's local constants
HandlerLoc ==
    [msAccessToken |-> None, msRefreshToken |-> None, xblToken |-> None,
     xboxTokenInfo |-> NoXsts, redeemTokenInfo |-> NoXsts, playfabTokenInfo |-> NoXsts,
     playfabToken |-> <<>>, SessionTicket |-> None, PlayFabId |-> None,
     mcToken |-> None, entityData |-> NoEntity]

\* the argument of res.json: nothing sent, or the credential bundle
EmptyBundle ==
    [sent |-> FALSE, jwt |-> <<>>, xuid |-> None, gamertag |-> None, uhs |-> None,
     msAccessToken |-> None, msRefreshToken |-> None, xblToken |-> None,
     xsts |-> <<>>, xboxliveToken |-> <<>>, playfabToken |-> <<>>, redeemToken |-> <<>>,
     mcToken |-> None, sessionTicket |-> None, playFabId |-> None,
     entityToken |-> None, entityTokenExpiresOn |-> None,
     entityTokenMaster |-> None, entityTokenMasterExpiresOn |-> None]

IdleHandler ==
    [pc |-> "idle", calls |-> <<>>, inflight |-> {}, loc |-> HandlerLoc, signed |-> 0,
     res |-> [kind |-> "none", status |-> 0, message |-> None, bundle |-> EmptyBundle]]

\* the request leaves the process and the handler is suspended at its await
issued(st, req, at) ==
    [st EXCEPT !.pc = at, !.calls = Append(@, req), !.inflight = {req}]

\* the handler throws: errorHandler sends err.status and err.message
failedWith(st, e) ==
    [st EXCEPT !.pc = "failed", !.inflight = {},
               !.res = [kind |-> "error", status |-> e.status, message |-> e.message,
                        bundle |-> EmptyBundle]]

\* the catch block of step 1
entryCatch(h, f) ==
    IF h = "callback" THEN getTokenFromDeviceCodeCatch(f)
    ELSE internal("Failed to refresh Microsoft token")

\* const msRefreshToken = tokenData.refresh_token [|| value.msRefreshToken]
msRefreshTokenOf(h, tokenData) ==
    IF h = "refresh" /\ tokenData.refresh_token = None THEN Body(h)
    ELSE tokenData.refresh_token

\* the master entity token is requested whatever the login returned
masterEntityRequest_Always(lc) ==
    <<Request("getEntityToken",
              <<Text(lc.SessionTicket), Text("master_player_account"), Text(lc.PlayFabId)>>)>>

\* PlayFabId ? await getEntityToken(SessionTicket, {Type, Id: PlayFabId}) : null
masterEntityRequest(lc) ==
    IF lc.PlayFabId # None
    THEN <<Request("getEntityToken",
                   <<Text(lc.SessionTicket), Text("master_player_account"), Text(lc.PlayFabId)>>)>>
    ELSE <<>>

\* signJwt, then res.json(buildAuthCallbackResponse({...})); reading
\* entityData.EntityToken of an absent data.data is a TypeError after signJwt
finish(st, entityData, masterEntityData) ==
    LET lc == st.loc
        xui == lc.xboxTokenInfo.xui
        signed == [st EXCEPT !.signed = @ + 1]
    IN
    IF ~entityData.present
    THEN failedWith(signed, internal("TypeError"))
    ELSE [signed EXCEPT
            !.pc = "done", !.inflight = {},
            !.res = [kind |-> "bundle", status |-> 200, message |-> None,
                     bundle |-> [sent |-> TRUE,
                        jwt |-> signJwt(xui.xid, xui.gtg),
                        xuid |-> xui.xid, gamertag |-> xui.gtg, uhs |-> xui.uhs,
                        msAccessToken |-> lc.msAccessToken,
                        msRefreshToken |-> lc.msRefreshToken,
                        xblToken |-> lc.xblToken,
                        xsts |-> <<lc.xboxTokenInfo, lc.redeemTokenInfo, lc.playfabTokenInfo>>,
                        xboxliveToken |-> CompositeXbl(xui.uhs, lc.xboxTokenInfo.Token),
                        playfabToken |-> lc.playfabToken,
                        redeemToken |-> CompositeXbl(xui.uhs, lc.redeemTokenInfo.Token),
                        mcToken |-> lc.mcToken,
                        sessionTicket |-> lc.SessionTicket,
                        playFabId |-> lc.PlayFabId,
                        entityToken |-> entityData.EntityToken,
                        entityTokenExpiresOn |-> entityData.TokenExpiration,
                        entityTokenMaster |->
                            IF masterEntityData.present THEN masterEntityData.EntityToken ELSE None,
                        entityTokenMasterExpiresOn |->
                            IF masterEntityData.present THEN masterEntityData.TokenExpiration ELSE None]]]

\* the handler h, suspended at st.pc, continues with the answer r up to its
\* next await, its throw or its res.json
resume(h, st, r) ==
    LET lc == st.loc
        xstsArgs(rp) == <<Text(lc.xblToken), Text(rp)>>
    IN
    CASE st.pc = "await_ms" ->
            IF ~r.ok THEN failedWith(st, entryCatch(h, r.fail))
            ELSE issued([st EXCEPT !.loc.msAccessToken = r.ms.access_token,
                                   !.loc.msRefreshToken = msRefreshTokenOf(h, r.ms)],
                        Request("getXBLToken", <<Text(r.ms.access_token)>>), "await_xbl")
      [] st.pc = "await_xbl" ->
            IF ~r.ok THEN failedWith(st, getXBLTokenCatch(r.fail))
            ELSE IF r.token = None THEN failedWith(st, badRequest("Missing xblToken"))
            ELSE issued([st EXCEPT !.loc.xblToken = r.token],
                        Request("getXSTSToken", <<Text(r.token), Text(RP_XBOX)>>),
                        "await_xsts_xbox")
      [] st.pc = "await_xsts_xbox" ->
            IF ~r.ok THEN failedWith(st, getXSTSTokenCatch(r.fail))
            ELSE issued([st EXCEPT !.loc.xboxTokenInfo = r.xsts],
                        Request("getXSTSToken", xstsArgs(RP_REDEEM)), "await_xsts_redeem")
      [] st.pc = "await_xsts_redeem" ->
            IF ~r.ok THEN failedWith(st, getXSTSTokenCatch(r.fail))
            ELSE issued([st EXCEPT !.loc.redeemTokenInfo = r.xsts],
                        Request("getXSTSToken", xstsArgs(RP_PLAYFAB)), "await_xsts_playfab")
      [] st.pc = "await_xsts_playfab" ->
            IF ~r.ok THEN failedWith(st, getXSTSTokenCatch(r.fail))
            ELSE LET playfabToken == CompositeXbl(lc.xboxTokenInfo.xui.uhs, r.xsts.Token) IN
                 issued([st EXCEPT !.loc.playfabTokenInfo = r.xsts,
                                   !.loc.playfabToken = playfabToken],
                        Request("loginWithXbox", <<playfabToken, Text(titleId(h))>>),
                        "await_login")
      [] st.pc = "await_login" ->
            IF ~r.ok THEN failedWith(st, loginWithXboxCatch(r.fail))
            ELSE IF ~r.login.present THEN failedWith(st, internal("TypeError"))
            ELSE IF r.login.SessionTicket = None
                 THEN failedWith(st, getMCTokenCatch(NoResponse))
            ELSE issued([st EXCEPT !.loc.SessionTicket = r.login.SessionTicket,
                                   !.loc.PlayFabId = r.login.PlayFabId],
                        Request("getMCToken", <<Text(r.login.SessionTicket)>>), "await_mc")
      [] st.pc = "await_mc" ->
            IF ~r.ok THEN failedWith(st, getMCTokenCatch(r.fail))
            ELSE IF r.token = None THEN failedWith(st, getMCTokenCatch(NoResponse))
            ELSE issued([st EXCEPT !.loc.mcToken = r.token],
                        Request("getEntityToken", <<Text(lc.SessionTicket)>>), "await_entity")
      [] st.pc = "await_entity" ->
            IF ~r.ok THEN failedWith(st, getEntityTokenCatch(r.fail))
            ELSE IF masterEntityRequest(lc) # <<>>
                 THEN issued([st EXCEPT !.loc.entityData = r.entity],
                             masterEntityRequest(lc)[1], "await_master")
            ELSE finish(st, r.entity, NoEntity)
      [] st.pc = "await_master" ->
            IF ~r.ok THEN failedWith(st, getEntityTokenCatch(r.fail))
            ELSE finish(st, lc.entityData, r.entity)

\* the awaited request of handler h
Awaited(h) == CHOOSE req \in handlers[h].inflight : TRUE

\* the body is valid (Joi: a required string): step 1 is posted
HandlerStart(h) ==
    /\ handlers[h].pc = "idle"
    /\ handlers' = [handlers EXCEPT
                      ![h] = issued(@, Request(EntryCall(h), <<Text(Body(h))>>), "await_ms")]
    /\ UNCHANGED upstream

\* the upstream answers a request it sees for the first time
HandlerAnswer(h) ==
    /\ handlers[h].inflight # {}
    /\ \A e \in upstream : e.req # Awaited(h)
    /\ \E r \in Replies(Awaited(h).fn) :
         /\ handlers' = [handlers EXCEPT ![h] = resume(h, @, r)]
         /\ upstream' = upstream \cup {[req |-> Awaited(h), reply |-> r]}

\* the upstream answers a request it has answered before
HandlerReplay(h) ==
    /\ handlers[h].inflight # {}
    /\ \E e \in upstream :
         /\ e.req = Awaited(h)
         /\ handlers' = [handlers EXCEPT ![h] = resume(h, @, e.reply)]
    /\ UNCHANGED upstream

twinVars == <<handlers, upstream>>

----------------------------------------------------------------------------
(* buildMarketplaceMessageEventsPayload (services/minecraft.service.js)    *)
(* options.events is [isArray, items]: Array.isArray(...) and its elements *)

\* JavaScript truthiness of a string or undefined
Given(v) == v # None /\ v # ""

\* a || b
Or(a, b) == IF Given(a) THEN a ELSE b

\* crypto.randomUUID()
randomUUID == "uuid-1"

MaxEvents == 2

\* event objects as the route's schema admits them, and as the function
\* reads them: absent fields are undefined
Events ==
    [eventType : {"Impression", "Delete"}, instanceId : {"I1"}, reportId : {"R1", None},
     sessionId : {"E1", None}, eventDateTime : {"T1", None}]

EventLists == UNION {[1..n -> Events] : n \in 0..MaxEvents}

Options ==
    [sessionId : {"S0", None}, sessionContext : {"ctx", None}, continuationToken : {"tok", None},
     events : [isArray : {TRUE}, items : EventLists] \cup {[isArray |-> FALSE, items |-> <<>>]},
     eventType : {"Impression", None}, instanceId : {"I0", ""}, reportId : {"R0", None},
     eventDateTime : {"T0", None}]

NoOptions ==
    [sessionId |-> None, sessionContext |-> None, continuationToken |-> None,
     events |-> [isArray |-> FALSE, items |-> <<>>],
     eventType |-> None, instanceId |-> None, reportId |-> None, eventDateTime |-> None]

\* every event takes the payload's session id, whatever its own
eventPayload_NoOwnSession(event, sessionId) ==
    [eventType |-> event.eventType, instanceId |-> event.instanceId,
     reportId |-> event.reportId, sessionId |-> sessionId,
     eventDateTime |-> IF Given(event.eventDateTime) THEN event.eventDateTime ELSE None]

\* the object built for one event; eventDateTime none = the key is not set
eventPayload(event, sessionId) ==
    [eventType |-> event.eventType, instanceId |-> event.instanceId,
     reportId |-> event.reportId, sessionId |-> Or(event.sessionId, sessionId),
     eventDateTime |-> IF Given(event.eventDateTime) THEN event.eventDateTime ELSE None]

NoPayload == [SessionId |-> None, SessionContext |-> None, continuationToken |-> None, events |-> <<>>]

NoBuilt == [done |-> FALSE, threw |-> FALSE, status |-> 0, payload |-> NoPayload, sessionId |-> None]

buildMarketplaceMessageEventsPayload(options) ==
    LET sessionId == Or(options.sessionId, randomUUID)
        \* typeof options.sessionContext === "string" ? options.sessionContext : ""
        sessionContext == IF options.sessionContext # None THEN options.sessionContext ELSE ""
        payload == [SessionId |-> sessionId, SessionContext |-> sessionContext,
                    continuationToken |-> IF Given(options.continuationToken)
                                          THEN options.continuationToken ELSE None,
                    events |-> <<>>]
        events == options.events
    IN
    IF events.isArray /\ Len(events.items) > 0
    THEN [done |-> TRUE, threw |-> FALSE, status |-> 0, sessionId |-> sessionId,
          payload |-> [payload EXCEPT !.events =
                          [i \in 1..Len(events.items) |-> eventPayload(events.items[i], sessionId)]]]
    ELSE IF ~Given(options.eventType) \/ ~Given(options.instanceId) \/ ~Given(options.reportId)
    THEN [NoBuilt EXCEPT !.done = TRUE, !.threw = TRUE,
                         !.status = badRequest("Missing messaging event data").status]
    ELSE [done |-> TRUE, threw |-> FALSE, status |-> 0, sessionId |-> sessionId,
          payload |-> [payload EXCEPT !.events =
                          <<[eventType |-> options.eventType, instanceId |-> options.instanceId,
                             reportId |-> options.reportId, sessionId |-> sessionId,
                             eventDateTime |-> IF Given(options.eventDateTime)
                                               THEN options.eventDateTime ELSE None]>>]]

\* one call of the function
BuildMarketplaceMessageEventsPayload(options) ==
    /\ msgIn' = options
    /\ msgOut' = buildMarketplaceMessageEventsPayload(options)

msgVars == <<msgIn, msgOut>>

----------------------------------------------------------------------------
(* The version-fallback call sites of services/xbox.service.js outside     *)
(* the caches: getPeopleSocial, getPeopleFollowers and the fetcher of      *)
(* getXuidByGamertag.  One call at a time.                                 *)

PeopleFns == {"getPeopleSocial", "getPeopleFollowers"}

\* what a 2xx answer carries
PeopleData == {"people-a", "people-b"}
\* data?.profileUsers?.[0]?.id of a 2xx answer: an id, or nothing
ProfileIds == {"2533", None}

\* the statuses an attempt can be answered with: 2xx, or what axios rejects on
AttemptStatus == {Ok} \cup FailStatus

IdleCall ==
    [fn |-> None, arg |-> None, pc |-> "idle", versions |-> <<>>, answers |-> <<>>,
     kind |-> "none", status |-> 0, message |-> None, value |-> None]

\* http.get(url, {headers: headers(ver)}) up to its await
attempt(c, ver, at) == [c EXCEPT !.pc = at, !.versions = Append(@, ver)]

answeredWith(c, s) == [c EXCEPT !.answers = Append(@, s)]

returns(c, v) == [c EXCEPT !.pc = "done", !.kind = "returned", !.value = v]

throws(c, e) ==
    [c EXCEPT !.pc = "done", !.kind = "thrown", !.status = e.status, !.message = e.message]

peopleMessage(fn) ==
    IF fn = "getPeopleSocial" THEN "Failed to get people (social)"
    ELSE "Failed to get people (followers)"

\* the older version is tried after every rejection with a 4xx status
IsAuthPolicy_Any4xx(s) == s >= 400 /\ s < 500

\* s === 401 || s === 403
IsAuthPolicy(s) == s = 401 \/ s = 403

\* the argument checks, then the version 4 request
GetPeople(fn, xuid, xboxliveToken) ==
    /\ vcall.pc = "idle"
    /\ vcall' =
         LET c == [vcall EXCEPT !.fn = fn, !.arg = xuid] IN
         IF xuid = None THEN throws(c, badRequest("xuid is required"))
         ELSE IF xboxliveToken = None THEN throws(c, badRequest("xboxliveToken is required"))
         ELSE attempt(c, 4, "await_v4")

\* the version 4 request resolves, or rejects into catch (errV4)
PeopleV4Answer(s, data) ==
    /\ vcall.fn \in PeopleFns /\ vcall.pc = "await_v4"
    /\ vcall' =
         LET c == answeredWith(vcall, s) IN
         IF s = Ok THEN returns(c, data)
         ELSE IF IsAuthPolicy(s) THEN attempt(c, 3, "await_v3")
         ELSE throws(c, internal(peopleMessage(vcall.fn)))

\* the version 3 request resolves, or rejects into catch (errV3)
PeopleV3Answer(s, data) ==
    /\ vcall.fn \in PeopleFns /\ vcall.pc = "await_v3"
    /\ vcall' =
         LET c == answeredWith(vcall, s) IN
         IF s = Ok THEN returns(c, data)
         ELSE throws(c, internal(peopleMessage(vcall.fn)))

\* the argument check, then call(3) inside the fetcher
GetXuidByGamertag(gamertag) ==
    /\ vcall.pc = "idle"
    /\ vcall' =
         LET c == [vcall EXCEPT !.fn = "getXuidByGamertag", !.arg = gamertag] IN
         IF gamertag = None THEN throws(c, badRequest("gamertag is required"))
         ELSE attempt(c, 3, "await_v3")

\* call(3) resolves, or rejects into catch (eV3)
XuidV3Answer(s, id) ==
    /\ vcall.fn = "getXuidByGamertag" /\ vcall.pc = "await_v3"
    /\ vcall' =
         LET c == answeredWith(vcall, s) IN
         IF s = Ok THEN returns(c, id)
         ELSE IF s = 404 THEN returns(c, None)
         ELSE attempt(c, 2, "await_v2")

\* call(2) resolves, or rejects into catch (eV2)
XuidV2Answer(s, id) ==
    /\ vcall.fn = "getXuidByGamertag" /\ vcall.pc = "await_v2"
    /\ vcall' =
         LET c == answeredWith(vcall, s) IN
         IF s = Ok THEN returns(c, id)
         ELSE IF s = 404 THEN returns(c, None)
         ELSE throws(c, internal("Failed to lookup XUID by gamertag"))

versionedVars == <<vcall>>

----------------------------------------------------------------------------
(* Specifications: one per component, the others idle                      *)

vars == <<chainVars, codecVars, wishlistVars, batchVars, profileVars, decodeVars, twinVars, msgVars, versionedVars>>

\* the service after start-up: no request in progress, empty caches
Init ==
    /\ pc = "idle"
    /\ calls = <<>>
    /\ inflight = {}
    /\ loc = InitLoc
    /\ thrown = NoThrow
    /\ jwtSigned = 0
    /\ res = NoRes
    /\ codecIn = NoIn
    /\ codecOut = NoOut
    /\ versionCache = [t \in McTokens |-> NoEntry]
    /\ reqs = [r \in Slots |-> IdleReq]
    /\ server = [t \in McTokens |-> Pair(Stamp(1), Stamp(1))]
    /\ rejected = [t \in McTokens |-> NoPair]
    /\ answered = NoAnswer
    /\ lastSet = NoSet
    /\ allXuids = <<>>
    /\ out = [k \in UpIds |-> <<Absent>>]
    /\ bulk = NoBulk
    /\ queue = <<>>
    /\ workers = [w \in 1..CONCURRENCY |-> IdleWorker]
    /\ lookups = <<>>
    /\ pending = 0
    /\ gaveUp = NoGiveUp
    /\ returned = FALSE
    /\ cache = [k \in Xuids |-> NoCached]
    /\ clock = 0
    /\ getters = [g \in Getters |-> IdleGetter]
    /\ decodeIn = <<>>
    /\ decodeOut = NoDecoded
    /\ handlers = [h \in Handlers |-> IdleHandler]
    /\ upstream = {}
    /\ msgIn = NoOptions
    /\ msgOut = NoBuilt
    /\ vcall = IdleCall

chainOnly == UNCHANGED <<codecVars, wishlistVars, batchVars, profileVars, decodeVars, twinVars, msgVars, versionedVars>>
codecOnly == UNCHANGED <<chainVars, wishlistVars, batchVars, profileVars, decodeVars, twinVars, msgVars, versionedVars>>
wishlistOnly == UNCHANGED <<chainVars, codecVars, batchVars, profileVars, decodeVars, twinVars, msgVars, versionedVars>>
batchOnly == UNCHANGED <<chainVars, codecVars, wishlistVars, profileVars, decodeVars, twinVars, msgVars, versionedVars>>
profileOnly == UNCHANGED <<chainVars, codecVars, wishlistVars, batchVars, decodeVars, twinVars, msgVars, versionedVars>>
decodeOnly == UNCHANGED <<chainVars, codecVars, wishlistVars, batchVars, profileVars, twinVars, msgVars, versionedVars>>
twinOnly == UNCHANGED <<chainVars, codecVars, wishlistVars, batchVars, profileVars, decodeVars, msgVars, versionedVars>>
msgOnly == UNCHANGED <<chainVars, codecVars, wishlistVars, batchVars, profileVars, decodeVars, twinVars, versionedVars>>
versionedOnly == UNCHANGED <<chainVars, codecVars, wishlistVars, batchVars, profileVars, decodeVars, twinVars, msgVars>>

\* POST /auth/callback
NextChain ==
    \/ Callback /\ chainOnly
    \/ DeviceOk /\ chainOnly
    \/ DeviceFail /\ chainOnly
    \/ XblOk /\ chainOnly
    \/ XblFail /\ chainOnly
    \/ XstsXboxOk /\ chainOnly
    \/ XstsRedeemOk /\ chainOnly
    \/ XstsPlayfabOk /\ chainOnly
    \/ XstsFail /\ chainOnly
    \/ LoginOk /\ chainOnly
    \/ LoginFail /\ chainOnly
    \/ McOk /\ chainOnly
    \/ McFail /\ chainOnly
    \/ EntityOk /\ chainOnly
    \/ MasterOk /\ chainOnly
    \/ EntityFail /\ chainOnly

\* normalizeToken on composite tokens
NextCodec ==
    /\ ~codecOut.done
    /\ \E uhs \in Texts(MaxUhsPieces), token \in Texts(MaxTokenPieces) :
         NormalizeComposite(uhs, token) /\ codecOnly

\* POST /wishlist/list and POST /wishlist/item, with the Marketplace's list
\* changing under them
NextWishlist ==
    \/ \E r \in Slots, t \in McTokens : ListStart(r, t) /\ wishlistOnly
    \/ \E r \in Slots, t \in McTokens : ItemStart(r, t) /\ wishlistOnly
    \/ \E r \in Slots : ListOk(r) /\ wishlistOnly
    \/ \E r \in Slots : ListFail(r) /\ wishlistOnly
    \/ \E r \in Slots : ReadAheadOk(r) /\ wishlistOnly
    \/ \E r \in Slots : ReadAheadFail(r) /\ wishlistOnly
    \/ \E r \in Slots : UpdateOk(r) /\ wishlistOnly
    \/ \E r \in Slots : UpdateStale(r) /\ wishlistOnly
    \/ \E r \in Slots : UpdateFail(r) /\ wishlistOnly
    \/ \E t \in McTokens : ExternalChange(t) /\ wishlistOnly

\* one getGamertagsBatch call
NextBatch ==
    \/ \E xuids \in SeqsUpTo(MaxIds) : GetGamertagsBatch(xuids) /\ batchOnly
    \/ BulkV3Ok /\ batchOnly
    \/ BulkV2Ok /\ batchOnly
    \/ BulkQueryOk /\ batchOnly
    \/ BulkV3Fail /\ batchOnly
    \/ BulkV2Fail /\ batchOnly
    \/ BulkQueryFail /\ batchOnly
    \/ \E w \in 1..CONCURRENCY, u \in SingleAnswers : WorkerOk(w, u) /\ batchOnly
    \/ \E w \in 1..CONCURRENCY : WorkerV2Fail(w) /\ batchOnly
    \/ \E w \in 1..CONCURRENCY : WorkerV3Fail(w) /\ batchOnly
    \/ BatchReturn /\ batchOnly

\* one getGamertagsBatch call whose first bulk request is rejected: the
\* worker pool on the whole input. The workers' loop never reads `out`, so a
\* 2xx answer is one without a user or one that names the first identifier
NextPool ==
    \/ \E xuids \in SeqsUpTo(MaxIds) : GetGamertagsBatch(xuids) /\ batchOnly
    \/ BulkV3Fail /\ batchOnly
    \/ \E w \in 1..CONCURRENCY, u \in PoolAnswers : WorkerOk(w, u) /\ batchOnly
    \/ \E w \in 1..CONCURRENCY : WorkerV2Fail(w) /\ batchOnly
    \/ \E w \in 1..CONCURRENCY : WorkerV3Fail(w) /\ batchOnly
    \/ BatchReturn /\ batchOnly

\* getProfileSettings calls against the shared cache
NextProfile ==
    \/ \E g \in Getters, xuid \in Xuids, token \in ProfileTokens :
          GetProfileSettings(g, xuid, token) /\ profileOnly
    \/ \E g \in Getters : ProfileV3Answer(g) /\ profileOnly
    \/ \E g \in Getters : ProfileV2Answer(g) /\ profileOnly
    \/ \E g \in Getters : GetterFree(g) /\ profileOnly
    \/ Tick /\ profileOnly

\* decodeOne, in both revisions, on tokens of up to MaxSegments segments
NextDecode ==
    /\ ~decodeOut.done
    /\ \E input \in DecodeInputs :
         \/ DecodeOne(input) /\ decodeOnly
         \/ DecodeOneTicket(input) /\ decodeOnly

\* one /auth/callback and one /auth/refresh request against the same upstream
NextTwin ==
    \/ \E h \in Handlers : HandlerStart(h) /\ twinOnly
    \/ \E h \in Handlers : HandlerAnswer(h) /\ twinOnly
    \/ \E h \in Handlers : HandlerReplay(h) /\ twinOnly

\* buildMarketplaceMessageEventsPayload on the options of a messaging request
NextMsg ==
    /\ ~msgOut.done
    /\ \E options \in Options : BuildMarketplaceMessageEventsPayload(options) /\ msgOnly

\* one call of getPeopleSocial, getPeopleFollowers or getXuidByGamertag
NextVersioned ==
    \/ \E fn \in PeopleFns, xuid \in {"2533", "2534", None}, t \in {"XBL3.0 x=u;t", None} :
         GetPeople(fn, xuid, t) /\ versionedOnly
    \/ \E s \in AttemptStatus, d \in PeopleData : PeopleV4Answer(s, d) /\ versionedOnly
    \/ \E s \in AttemptStatus, d \in PeopleData : PeopleV3Answer(s, d) /\ versionedOnly
    \/ \E g \in {"Steve", "Alex", None} : GetXuidByGamertag(g) /\ versionedOnly
    \/ \E s \in AttemptStatus, id \in ProfileIds : XuidV3Answer(s, id) /\ versionedOnly
    \/ \E s \in AttemptStatus, id \in ProfileIds : XuidV2Answer(s, id) /\ versionedOnly

SpecChain == Init /\ [][NextChain]_vars
SpecCodec == Init /\ [][NextCodec]_vars
SpecWishlist == Init /\ [][NextWishlist]_vars
SpecBatch == Init /\ [][NextBatch]_vars
\* every request is answered or times out (createHttp sets axios' timeout), and
\* a resumed worker runs on: no step of the call is postponed for ever
SpecPool == Init /\ [][NextPool]_vars /\ WF_vars(NextPool)
SpecProfile == Init /\ [][NextProfile]_vars
SpecDecode == Init /\ [][NextDecode]_vars
SpecTwin == Init /\ [][NextTwin]_vars
SpecMsg == Init /\ [][NextMsg]_vars
SpecVersioned == Init /\ [][NextVersioned]_vars

----------------------------------------------------------------------------
(* Claims about the login chain                                            *)

ChainClients == {"getTokenFromDeviceCode", "getXBLToken", "getXSTSToken",
                 "loginWithXbox", "getMCToken", "getEntityToken"}

CallsOf(fn) == {i \in 1..Len(calls) : calls[i].fn = fn}

\* C1: once an upstream step of POST /auth/callback has failed, the handler has
\* ended with an error, the failed request is the last one issued, nothing is
\* in flight, no JWT was signed and no bundle (not even a partial one) was
\* sent; after an XSTS failure getMCToken and getEntityToken were never called.
C1_ChainAtomicity ==
    thrown.upstream =>
        /\ pc = "failed"
        /\ res.kind = "error"
        /\ ~res.bundle.sent
        /\ jwtSigned = 0
        /\ inflight = {}
        /\ calls # <<>> /\ calls[Len(calls)].fn = thrown.call
        /\ thrown.call = "getXSTSToken" =>
              CallsOf("getMCToken") \cup CallsOf("getEntityToken") \cup CallsOf("loginWithXbox") = {}

\* the third XSTS request (PlayFab-login audience) failed after two succeeded
C1_Witness ==
    /\ thrown.upstream
    /\ thrown.call = "getXSTSToken"
    /\ Len(calls) = 5
    /\ res.kind = "error"

\* C2: an "authorization_pending" answer to the device-code exchange ends the
\* chain with status 400 and message exactly "Authorization pending", the
\* exchange being the only upstream request; every other failure of the
\* exchange gives status 500 and another message.
C2_PendingDistinguishable ==
    (thrown.upstream /\ thrown.call = "getTokenFromDeviceCode") =>
        /\ Len(calls) = 1
        /\ IF thrown.err = "authorization_pending"
           THEN res.status = 400 /\ res.message = "Authorization pending"
           ELSE res.status = 500 /\ res.message # "Authorization pending"

C2_Witness ==
    /\ thrown.call = "getTokenFromDeviceCode"
    /\ thrown.err = "authorization_pending"
    /\ res.kind = "error" /\ res.status = 400

\* the status the error taxonomy of the chain assigns to an upstream failure
TaxonomyStatus(status) ==
    IF status = 401 THEN 401
    ELSE IF status = 403 THEN 403
    ELSE IF status >= 400 /\ status < 500 THEN 400
    ELSE 500

\* C10: getXBLToken, getXSTSToken, loginWithXbox, getMCToken and getEntityToken
\* turn an upstream 401 into a 401 error, 403 into 403, any other 4xx into 400
\* and a 5xx or a failure without response into 500.
C10_ErrorTaxonomy ==
    (thrown.upstream /\ thrown.call \in ChainClients \ {"getTokenFromDeviceCode"}) =>
        res.status = TaxonomyStatus(thrown.status)


----------------------------------------------------------------------------
(* Claims about normalizeToken                                             *)

HasSemi(s) == \E i \in 1..Len(s) : s[i] = ";"

\* C5 as stated: for every uhs and token without ";", normalizeToken of
\* "XBL3.0 x=" + uhs + ";" + token returns that uhs and that token.
C5_RoundTripAnyText ==
    (codecOut.done /\ ~HasSemi(codecIn.uhs) /\ ~HasSemi(codecIn.token)) =>
        (codecOut.uhs = codecIn.uhs /\ codecOut.raw = codecIn.token)

\* a token the round trip preserves: non-empty, no line terminator, no white
\* space at either end, not itself starting with the MCToken scheme word
PlainToken(t) ==
    /\ t # <<>>
    /\ \A i \in 1..Len(t) : ~IsLineTerminator(t[i])
    /\ Trim(t) = t
    /\ ~TestWordSpaces(t, MCTOKEN)

\* C5 amended: for every non-empty uhs without ";" and every plain token
\* without ";", normalizeToken of "XBL3.0 x=" + uhs + ";" + token returns
\* exactly that uhs and exactly that token, with prefix "XBL3.0".
C5_RoundTrip ==
    (codecOut.done /\ codecIn.uhs # <<>> /\ ~HasSemi(codecIn.uhs)
       /\ ~HasSemi(codecIn.token) /\ PlainToken(codecIn.token)) =>
        (codecOut.uhs = codecIn.uhs /\ codecOut.raw = codecIn.token /\ codecOut.prefix = "XBL3.0")

\* a multi-character token with an inner space and a dot came back unchanged
C5_Witness ==
    /\ codecOut.done
    /\ codecIn.uhs = <<"a">>
    /\ codecIn.token = <<"b", ".", "c", " ", "a">>
    /\ codecOut.uhs = codecIn.uhs /\ codecOut.raw = codecIn.token

----------------------------------------------------------------------------
(* Claims about the wishlist version cache                                 *)

\* C6: setCachedVersions merges: in every step, a stamp cached for a token is
\* still cached afterwards, and a call that supplies no listVersion leaves the
\* cached listVersion as it was; likewise for inventoryVersion.
C6_SetCachedMerges ==
    [][\A t \in McTokens :
         /\ versionCache[t].listVersion # NoStamp => versionCache'[t].listVersion # NoStamp
         /\ versionCache[t].inventoryVersion # NoStamp => versionCache'[t].inventoryVersion # NoStamp
         /\ (lastSet'.called /\ lastSet'.token = t) =>
              /\ ~lastSet'.listVersion =>
                    versionCache'[t].listVersion = versionCache[t].listVersion
              /\ ~lastSet'.inventoryVersion =>
                    versionCache'[t].inventoryVersion = versionCache[t].inventoryVersion
      ]_vars

\* a call that supplied only inventoryVersion has left a cached listVersion
C6_Witness ==
    /\ lastSet.called
    /\ ~lastSet.listVersion
    /\ lastSet.inventoryVersion
    /\ versionCache[lastSet.token].listVersion # NoStamp

\* what C7 says of one mutation request, in flight or answered
ReadAheadRule(q) ==
    /\ q.readAheads = IF q.cachedAtStart THEN 0 ELSE 1
    /\ q.updates <= 1
    /\ (q.updates = 1 /\ ~q.cachedAtStart) => q.readAheadAnswered

\* C7: a POST /wishlist/item request makes no read-ahead call when both
\* stamps were cached for its token and exactly one otherwise, never more
\* than one updateMCWishlist call, and none before its read-ahead is answered.
C7_ReadAheadCount ==
    /\ answered.route = "item" => ReadAheadRule(answered)
    /\ \A r \in Slots :
         reqs[r].route = "item" =>
            /\ ReadAheadRule(reqs[r])
            /\ reqs[r].pc = "readahead" => (reqs[r].updates = 0 /\ ~reqs[r].readAheadAnswered)

\* one mutation went through on cached stamps, another is mutating after its
\* read-ahead
C7_Witness ==
    /\ answered.route = "item" /\ answered.status = 200
    /\ answered.cachedAtStart /\ answered.readAheads = 0 /\ answered.updates = 1
    /\ \E q \in Slots :
         /\ reqs[q].route = "item" /\ reqs[q].pc = "update" /\ reqs[q].readAheadAnswered
         /\ ~reqs[q].cachedAtStart /\ reqs[q].readAheads = 1 /\ reqs[q].updates = 1

\* C8: when the read-ahead answer lacks listVersion or inventoryVersion, that
\* step ends the request with a 400 error, without any updateMCWishlist call,
\* and leaves the version cache unchanged.
C8_MissingStampFails ==
    [][\A r \in Slots :
         (/\ reqs[r].pc = "readahead"
          /\ \/ reqs'[r].lacked
             \/ reqs'[r].pc = "idle" /\ answered'.cause = "stamps") =>
            /\ reqs'[r].pc = "idle"
            /\ answered'.status = 400
            /\ answered'.readAheads = 1 /\ answered'.updates = 0
            /\ versionCache' = versionCache
      ]_vars

\* a read-ahead without inventoryVersion failed and the half-filled cache
\* entry is still half-filled
C8_Witness ==
    /\ answered.route = "item" /\ answered.cause = "stamps" /\ answered.status = 400
    /\ answered.updates = 0
    /\ versionCache[answered.token].listVersion # NoStamp
    /\ versionCache[answered.token].inventoryVersion = NoStamp

\* C9: after the Marketplace rejected a mutation for stale stamps, the next
\* mutation for that token does not carry the same stamps again: it gets
\* fresh ones from an upstream answer first.
C9_NoStaleResend ==
    \A r \in Slots : reqs[r].pc = "update" => ~reqs[r].resent

----------------------------------------------------------------------------
(* Claims about getGamertagsBatch                                          *)

\* C3: whatever the upstream answered, the map getGamertagsBatch returns has
\* exactly the requested identifiers as its keys.
C3_KeySetIsInputSet ==
    (returned /\ allXuids # <<>>) => Keys(out) = Range(allXuids)

----------------------------------------------------------------------------
(* Claims about getProfileSettings                                         *)

\* C4: a getProfileSettings call that missed the cache asks with contract
\* version 3 first; when that attempt is answered 401 or 403, a second attempt
\* is made with contract version 2, and if the upstream accepts it the call
\* succeeds with the version-2 response.
C4_FallsBackOnAuthRejection ==
    \A g \in Getters :
        /\ getters[g].attempts # <<>> => getters[g].attempts[1] = 3
        /\ (/\ getters[g].pc \in {"done", "failed"}
            /\ getters[g].answers # <<>>
            /\ getters[g].answers[1] \in {401, 403})
           => /\ getters[g].attempts = <<3, 2>>
              /\ Len(getters[g].answers) = 2
              /\ getters[g].answers[2] = Ok =>
                   /\ getters[g].pc = "done"
                   /\ getters[g].result = ProfileData(getters[g].xuid, 2)

----------------------------------------------------------------------------
(* Claims about decodeOne                                                  *)

\* C11: decodeOne (part_011) never raises: every input gets a result, and ok
\* is false exactly when neither decodeCompact nor the generic decode nor the
\* opaque rule produced one.
C11_DecodeOneTotal ==
    LET raw == normalizeToken(decodeIn).raw IN
    (decodeOut.done /\ decodeOut.rev = "part_011") =>
        /\ ~decodeOut.raised
        /\ decodeOut.ok = (\/ decodeCompact(raw).kind # None
                           \/ jwtDecode(raw).dec
                           \/ IsOpaque(raw))

\* C12: a token that is no compact token and is at least 24 characters long
\* after its scheme is stripped decodes as ok, kind OPAQUE, with header
\* {typ: "OpaqueToken"} and payload {length}.
C12_OpaqueFallback ==
    LET raw == normalizeToken(decodeIn).raw IN
    (/\ decodeOut.done
     /\ decodeCompact(raw).kind = None /\ ~jwtDecode(raw).dec
     /\ Length(raw) >= OPAQUE_MIN)
    => /\ ~decodeOut.raised
       /\ decodeOut.ok /\ decodeOut.kind = "OPAQUE"
       /\ decodeOut.header = JsonObject("OpaqueToken", <<>>)
       /\ decodeOut.payload = LengthObject(Length(raw))

----------------------------------------------------------------------------
(* Claims about /auth/callback and /auth/refresh side by side              *)

Finished(st) == st.pc \in {"done", "failed"}

\* what a handler did from step 2 on: the calls after the first, the number
\* of signJwt calls and the response without the refresh token of step 1
AfterEntry(st) ==
    [calls |-> Tail(st.calls), signed |-> st.signed,
     res |-> [st.res EXCEPT !.bundle.msRefreshToken = None]]

----------------------------------------------------------------------------
(* Claims about buildMarketplaceMessageEventsPayload                       *)

\* payload.events has one entry per input event, in input order, with the
\* event's eventType, instanceId, reportId and its own or the payload's session id
OnePerEvent ==
    LET items == msgIn.events.items
        built == msgOut.payload.events
    IN
    /\ ~msgOut.threw
    /\ Len(built) = Len(items)
    /\ \A i \in 1..Len(items) :
         /\ built[i].eventType = items[i].eventType
         /\ built[i].instanceId = items[i].instanceId
         /\ built[i].reportId = items[i].reportId
         /\ built[i].sessionId = IF Given(items[i].sessionId) THEN items[i].sessionId
                                 ELSE msgOut.payload.SessionId

\* payload.events is the one event of the top-level fields
SingleEvent ==
    /\ ~msgOut.threw
    /\ Len(msgOut.payload.events) = 1
    /\ msgOut.payload.events[1].eventType = msgIn.eventType
    /\ msgOut.payload.events[1].instanceId = msgIn.instanceId
    /\ msgOut.payload.events[1].reportId = msgIn.reportId
    /\ msgOut.payload.events[1].sessionId = msgOut.payload.SessionId

TopLevelEvent == Given(msgIn.eventType) /\ Given(msgIn.instanceId) /\ Given(msgIn.reportId)

\* C14 as stated: a non-empty events array gives one entry per event; no events
\* array but eventType, instanceId and reportId give the single event; every
\* other input, an empty events array included, fails with status 400.
C14_EventsPayloadAsStated ==
    msgOut.done =>
        IF msgIn.events.isArray /\ Len(msgIn.events.items) > 0 THEN OnePerEvent
        ELSE IF ~msgIn.events.isArray /\ TopLevelEvent THEN SingleEvent
        ELSE msgOut.threw /\ msgOut.status = 400

\* C14: a non-empty events array gives one entry per event, in order, each with
\* its eventType, instanceId, reportId and its own or else the payload's
\* session id; without a non-empty events array (none, or an empty one) but with
\* eventType, instanceId and reportId the payload holds exactly the one event
\* of those values and the payload session id; otherwise the call fails with 400.
C14_EventsPayload ==
    msgOut.done =>
        IF msgIn.events.isArray /\ Len(msgIn.events.items) > 0 THEN OnePerEvent
        ELSE IF TopLevelEvent THEN SingleEvent
        ELSE msgOut.threw /\ msgOut.status = 400

\* an empty events array next to top-level event fields: the single event is
\* built, under a generated session id
C14_Witness ==
    /\ msgOut.done /\ ~msgOut.threw
    /\ msgIn.events.isArray /\ Len(msgIn.events.items) = 0
    /\ TopLevelEvent
    /\ msgIn.sessionId = None
    /\ Len(msgOut.payload.events) = 1
    /\ msgOut.payload.events[1].sessionId = randomUUID

----------------------------------------------------------------------------
(* Claims about the version-fallback call sites                            *)

IsPrefix(a, b) == Len(a) <= Len(b) /\ \A i \in 1..Len(a) : a[i] = b[i]

\* C15: getPeopleSocial and getPeopleFollowers request contract version 4
\* first; they request version 3, once, exactly when version 4 was rejected
\* with 401 or 403; they make at most two attempts; any other rejection of the
\* first attempt ends the call with an internal error and no second attempt.
C15_PeopleFallback ==
    vcall.fn \in PeopleFns =>
        /\ IsPrefix(vcall.versions, <<4, 3>>)
        /\ (Len(vcall.versions) = 2) <=>
              (Len(vcall.answers) >= 1 /\ vcall.answers[1] \in {401, 403})
        /\ (Len(vcall.answers) >= 1 /\ vcall.answers[1] \notin {Ok, 401, 403}) =>
              /\ vcall.kind = "thrown" /\ vcall.status = 500
              /\ Len(vcall.versions) = 1

\* getPeopleFollowers, refused with 403 on version 4, answered on version 3
C15_Witness ==
    /\ vcall.fn = "getPeopleFollowers"
    /\ vcall.versions = <<4, 3>>
    /\ vcall.answers = <<403, Ok>>
    /\ vcall.kind = "returned"

\* C16: at the version-fallback call sites an older contract version is
\* requested only after the newer one was rejected with 401 or 403, never
\* after another 4xx, a 5xx or a failure without a response; here for
\* getXuidByGamertag.
C16_RetryOnlyOnAuthRejection ==
    (vcall.fn = "getXuidByGamertag" /\ Len(vcall.versions) = 2) =>
        vcall.answers[1] \in {401, 403}

----------------------------------------------------------------------------
(* More claims about getGamertagsBatch                                     *)

\* the step is the arrival of the last chunk's data
LastChunkArrives == LastChunk /\ \E stage \in {"v3", "v2", "q"} : BulkData(stage)

\* C18: whatever the input list, duplicates included, when the data of the
\* last bulk chunk arrives (so every chunk call succeeded) and the merged
\* answers hold an entry for every requested identifier, getGamertagsBatch
\* returns the merged map and issues no single-item lookup.
C18_BulkCompleteReturns ==
    [][(LastChunkArrives /\ Range(allXuids) \subseteq Keys(out'))
        => (returned' /\ lookups' = <<>>)]_vars

----------------------------------------------------------------------------
(* Claims about the steps of the login chain, for both handlers            *)

CalledFns(st) == {st.calls[i].fn : i \in 1..Len(st.calls)}

\* C17: once the Xbox-audience XSTS answer has arrived without display claims
\* (no xui entry), the handler builds no composite token, never calls
\* loginWithXbox, signs no JWT and sends no bundle.
C17_MissingClaimsFail ==
    \A h \in Handlers :
        LET st == handlers[h] IN
        (st.loc.xboxTokenInfo.Token # None /\ st.loc.xboxTokenInfo.xui = NoXui) =>
            /\ st.loc.playfabToken = <<>>
            /\ "loginWithXbox" \notin CalledFns(st)
            /\ st.signed = 0
            /\ st.res.kind # "bundle"

\* the XSTS requests among the first n calls of a handler
XstsRequests(st, n) == {st.calls[i] : i \in {j \in 1..n : st.calls[j].fn = "getXSTSToken"}}

\* C19: the three XSTS requests are in flight together: when a handler sends
\* an XSTS request, the XSTS requests it sent before are still unanswered.
C19_XstsConcurrent ==
    [][\A h \in Handlers :
         LET st == handlers[h]
             nx == handlers'[h]
         IN
         (/\ Len(nx.calls) = Len(st.calls) + 1
          /\ nx.calls[Len(nx.calls)].fn = "getXSTSToken")
         => XstsRequests(st, Len(st.calls)) \subseteq nx.inflight]_vars

\* the master-player-account request: getEntityToken with an entity argument
IsMasterRequest(req) == req.fn = "getEntityToken" /\ Len(req.args) = 3

MasterRequested(st) == \E i \in 1..Len(st.calls) : IsMasterRequest(st.calls[i])

\* C20: the master-player-account entity token is requested if and only if the
\* PlayFab login returned a PlayFabId: after the title entity token arrived,
\* the request has been sent exactly when there is a PlayFabId; without one
\* the handler goes on to send the bundle, which has no master entity token.
C20_MasterEntityIffPlayFabId ==
    \A h \in Handlers :
        LET st == handlers[h] IN
        /\ MasterRequested(st) => st.loc.PlayFabId # None
        /\ st.pc \in {"await_master", "done"} =>
              (MasterRequested(st) <=> st.loc.PlayFabId # None)
        /\ (st.pc = "done" /\ st.loc.PlayFabId = None) =>
              /\ st.res.kind = "bundle" /\ st.res.bundle.sent
              /\ st.res.bundle.entityTokenMaster = None
              /\ st.res.bundle.entityToken # None

\* /refresh ended with a bundle after a login without PlayFabId: eight
\* calls, the last one for the title entity token, none for the master one
C20_Witness ==
    LET st == handlers["refresh"] IN
    /\ st.pc = "done"
    /\ st.loc.PlayFabId = None
    /\ st.res.kind = "bundle" /\ st.res.bundle.sent
    /\ st.res.bundle.entityTokenMaster = None
    /\ Len(st.calls) = 8
    /\ st.calls[8] = Request("getEntityToken", <<Text(st.loc.SessionTicket)>>)
    /\ ~MasterRequested(st)

----------------------------------------------------------------------------
(* Claims about the worker pool of getGamertagsBatch                       *)

\* the pool has been started: no worker is where it was before the call
PoolStarted == \E w \in 1..CONCURRENCY : workers[w].pc # "idle"

\* the identifiers the workers took from the queue, in the order they took
\* them: every identifier's first request is the one with version 2
RECURSIVE Dequeued(_)
Dequeued(lk) ==
    IF lk = <<>> THEN <<>>
    ELSE IF Head(lk)[2] = 2 THEN <<Head(lk)[1]>> \o Dequeued(Tail(lk))
    ELSE Dequeued(Tail(lk))

\* the workers that are looking up an identifier at the moment
Held == {w \in 1..CONCURRENCY : workers[w].pc \in {"v2", "v3"}}

\* C21: in the worker pool every item of the queue is taken by exactly one
\* worker, under every interleaving: what has been taken, in order, followed
\* by what is still queued is the input list, so no item is taken twice and
\* none is skipped; a worker holds an item only while it looks it up; and
\* once the pool has started the call eventually returns its map.
C21_EachItemDequeuedOnce ==
    /\ [](PoolStarted =>
            /\ Dequeued(lookups) \o queue = allXuids
            /\ Cardinality(Held) = pending
            /\ returned => (queue = <<>> /\ pending = 0))
    /\ (PoolStarted ~> returned)

\* three items, two workers: the call has returned after each item was
\* looked up once, the third by whichever worker was free first
C21_Witness ==
    /\ returned /\ PoolStarted
    /\ Len(allXuids) = 3
    /\ Dequeued(lookups) = allXuids
    /\ queue = <<>>

\* C22: the single-item requests sent and not yet answered are never more than
\* the pool size, whatever the length of the queue
C22_AtMostPoolSizeInFlight == pending <= CONCURRENCY

\* every worker awaits an answer while identifiers are still queued
C22_Witness ==
    /\ pending = CONCURRENCY
    /\ \A w \in 1..CONCURRENCY : workers[w].pc \in {"v2", "v3"}
    /\ queue # <<>>

\* how often e occurs in the sequence q
Count(q, e) == Cardinality({k \in 1..Len(q) : q[k] = e})

\* C23: at every point of the log of single-item requests, an identifier has
\* had at least as many version-3 requests as version-2 requests (the newer
\* version is tried first, the older one only after it), and it has at most two
\* requests for each of its occurrences in the input
C23_NewerVersionFirst ==
    /\ \A n \in 0..Len(lookups) : \A x \in Ids :
          Count(SubSeq(lookups, 1, n), <<x, 2>>) <= Count(SubSeq(lookups, 1, n), <<x, 3>>)
    /\ \A x \in Ids :
          Count(lookups, <<x, 2>>) + Count(lookups, <<x, 3>>) <= 2 * Count(allXuids, x)

\* C24: when both single-item attempts for an identifier have failed, the map
\* has an entry for it: the name it already had if there was one, null if it had
\* no entry or a null one
C24_FailedLookupKeepsName ==
    gaveUp.x # None =>
        out[gaveUp.x] = (IF gaveUp.had \in {<<Absent>>, <<Null>>} THEN <<Null>> ELSE gaveUp.had)

\* of two identifiers the bulk answer named one; its two single-item attempts
\* failed while the other worker still awaits its first answer
C24_Witness ==
    /\ gaveUp.x # None
    /\ gaveUp.had = <<"gt">>
    /\ Len(allXuids) = 2
    /\ \E w \in 1..CONCURRENCY : workers[w].pc = "v2"

\* C25: a bulk request carries between one and MAX_BATCH identifiers; the
\* chunks requested so far, one after the other, are the beginning of the input
\* list, and with the last chunk they are the whole list, item for item
C25_ChunksPartitionInput ==
    bulk.stage # "none" =>
        /\ Len(bulk.body) \in 1..MAX_BATCH
        /\ IsPrefix(bulk.before \o bulk.body, allXuids)
        /\ LastChunk => bulk.before \o bulk.body = allXuids

\* the second and last chunk of a list longer than MAX_BATCH is being requested
C25_Witness ==
    /\ bulk.stage # "none"
    /\ bulk.before # <<>>
    /\ Len(bulk.before) = MAX_BATCH
    /\ LastChunk
    /\ bulk.before \o bulk.body = allXuids

----------------------------------------------------------------------------
(* Claims about cached()                                                   *)

\* getter g's call begins in this step
Called(g) == getters[g].pc = "idle" /\ getters'[g].pc # "idle"
\* the fetcher of getter g's call returns its value in this step
Filled(g) == getters[g].pc \in {"v3", "v2"} /\ getters'[g].pc = "done"
\* the fetcher of getter g's call throws in this step
Threw(g) == getters[g].pc \in {"v3", "v2"} /\ getters'[g].pc = "failed"
\* the key has an entry whose ttl has not run out
Unexpired(k) == cache[k].present /\ clock < cache[k].expires

C27_LastWriteWins ==
    [][\A g \in Getters :
         /\ (Called(g) /\ ~Unexpired(getters'[g].xuid)) => getters'[g].pc = "v3"
         /\ (Called(g) /\ Unexpired(getters'[g].xuid)) =>
               getters'[g].result = cache[getters'[g].xuid].value
         /\ Filled(g) =>
               /\ getters'[g].result =
                      ProfileData(getters[g].xuid,
                                  getters[g].attempts[Len(getters[g].attempts)])
               /\ cache'[getters[g].xuid].present
               /\ cache'[getters[g].xuid].value = getters'[g].result
               /\ \A h \in Getters \ {g} : getters'[h] = getters[h]]_vars

\* two calls for one key both missed before any time passed, their fetchers
\* returned different values, and the key holds one of the two
C27_Witness ==
    /\ clock = 0
    /\ \A g \in Getters : getters[g].pc = "done" /\ getters[g].attempts # <<>>
    /\ getters[1].xuid = getters[2].xuid
    /\ getters[1].result # getters[2].result
    /\ cache[getters[1].xuid].value \in {getters[1].result, getters[2].result}
    /\ Unexpired(getters[1].xuid)

\* C29: when the fetcher of a call throws, the call fails with the fetcher's
\* error and the cache is exactly as it was; the cache never holds anything but
\* a fetcher's value, and a call that starts without an unexpired entry for its
\* key runs its fetcher whatever failed before
C29_FailureNotCached ==
    [][/\ \A g \in Getters :
            /\ Threw(g) =>
                  /\ cache' = cache
                  /\ getters'[g].status = internal("Failed to get profile settings").status
                  /\ getters'[g].result = <<>>
            /\ (Called(g) /\ ~Unexpired(getters'[g].xuid)) => getters'[g].attempts = <<3>>
       /\ \A k \in Xuids :
            cache'[k].present => cache'[k].value \in {ProfileData(k, 3), ProfileData(k, 2)}]_vars

\* a call whose key held an expired entry ran its fetcher, the fetcher failed,
\* and the entry is still the old one
C29_Witness ==
    \E g \in Getters :
        /\ getters[g].pc = "failed"
        /\ getters[g].token = "valid"
        /\ cache[getters[g].xuid].present
        /\ cache[getters[g].xuid].expires <= clock
        /\ \A h \in Getters \ {g} : getters[h].pc = "idle"

\* C28: a getProfileSettings call that returned data carried a token the
\* upstream accepts, whoever filled the cache before it
C28_DataOnlyForAcceptedToken ==
    \A g \in Getters : getters[g].pc = "done" => getters[g].token = "valid"

\* C30: when getMCToken is handed no SessionTicket, no session/start request
\* is sent and the call fails with status 400
C30_MissingTicketIsBadRequest ==
    (/\ pc = "failed"
     /\ thrown.call = "getMCToken"
     /\ ~thrown.upstream
     /\ loc.SessionTicket = None)
        => /\ CallsOf("getMCToken") = {}
           /\ res.status = badRequest("SessionTicket missing/invalid").status

====
